---- MODULE Spec2Model ----
(***************************************************************************)
(* TraceT: decision engine (tracet/models/conditions.py, trigger.py,       *)
(* signals.py, views.py) and telescope dispatch                            *)
(* (TraceT2App/models/telescopes.py).                                      *)
(*                                                                         *)
(* Time is counted in seconds.  Payload values are strings, as they come   *)
(* out of an XPath/JSONPath query; Python's None is the value None.        *)
(***************************************************************************)
EXTENDS Integers, Sequences, FiniteSets, TLC

VARIABLES
    now,            \* the wall clock (timezone.now()), in seconds
    notices,        \* Notice table, in order of arrival
    triggers,       \* Trigger table: trigger id -> configuration
    events,         \* Event table: set of Event rows
    decisions,      \* Decision table (with its Factor rows), in order of creation
    observations,   \* Observation table, in order of creation
    acc,            \* Factor.__add__: the left operand / running fold
    prev,           \* Factor.__add__: the left operand of the last addition
    evs,            \* Factor.__add__: the right operands folded so far (evs[1] is the seed)
    dfactors,       \* Decision.conclusion: the Decision's Factor rows
    dsource,        \* Decision.conclusion: the Decision's source
    dconclusion,    \* Decision.conclusion: the value the property returned
    coords,         \* MWAGW.prepare_request: the skymap cells, by descending density
    scanned,        \* MWAGW.prepare_request: the cells the loop has gone through
    pointings,      \* MWAGW.prepare_request: the sweet spots selected so far
    ncondition,     \* NumericRangeCondition.vote: the condition
    nvalue,         \* NumericRangeCondition.vote: what the selector resolves to
    nresult,        \* NumericRangeCondition.vote: the Factor returned, or what was raised
    inflight,       \* Telescope.create_observation: the calls under way, by process
    queried         \* Event.querylatest: the call made and what it returned

sysvars == <<now, notices, triggers, events, decisions, observations>>
addvars == <<acc, prev, evs>>
conclvars == <<dfactors, dsource, dconclusion>>
pointvars == <<coords, scanned, pointings>>
votevars == <<ncondition, nvalue, nresult>>
racevars == <<inflight>>
queryvars == <<queried>>
vars == <<now, notices, triggers, events, decisions, observations,
          acc, prev, evs, dfactors, dsource, dconclusion,
          coords, scanned, pointings, ncondition, nvalue, nresult, inflight, queried>>

(***************************************************************************)
(* Bounds of the model                                                     *)
(***************************************************************************)
MaxEvals == 3       \* evaluations folded into one Factor
MaxFactors == 3     \* Factor rows of one Decision in the conclusion check
MaxNotices == 2     \* notices that arrive
MaxManual == 1      \* manual retriggers
MaxTicks == 3       \* minutes that pass
MaxDispatches == 2  \* dispatches, with every outcome of every step
MaxObservations == 3 \* dispatches that reach the override check
MaxArrivals == 2    \* notices that reach the archive
MaxCells == 5       \* cells of a skymap
MaxArchived == 2    \* notices in the archive of the configuration specification
MaxRetriggers == 1  \* manual retriggers of the configuration specification
MaxAttempts == 2    \* manual retriggers after a dispatch

(***************************************************************************)
(* Vote and Factor                                                         *)
(***************************************************************************)
None == "None"

FAIL == "FAIL"
MAYBE == "MAYBE"
PASS == "PASS"
Vote == {FAIL, MAYBE, PASS}

\* The integer value of a Vote member (an IntegerChoices)
VoteValue(v) == CASE v = FAIL -> 0 - 1 [] v = MAYBE -> 0 [] v = PASS -> 1

NOTICE == "notice"
MANUAL == "manual"
SIMULATED == "simulated"
Source == {NOTICE, MANUAL, SIMULATED}

\* Factor(condition=..., vote=..., inherited=...); vote defaults to None,
\* inherited to False
Factor(condition, vote, inherited) ==
    [condition |-> condition, vote |-> vote, inherited |-> inherited]

\* FactorAdd with the operands' precedence swapped (the earlier Factor wins)
FactorAddEarlierWins(self, other) ==
    IF self.vote # None
    THEN Factor(self.condition, self.vote, other.vote = None)
    ELSE Factor(other.condition, other.vote, FALSE)

\* FactorAdd that forgets to mark the carried Factor as inherited
FactorAddNotMarked(self, other) ==
    IF other.vote = None
    THEN Factor(self.condition, self.vote, self.inherited)
    ELSE Factor(other.condition, other.vote, FALSE)

\* the value of the Factor variables in the specifications that do not use them
IdleFactor == Factor("", None, FALSE)

\* the variables of the pointing selection and of the numeric vote, at rest
IdlePointing == coords = <<>> /\ scanned = 0 /\ pointings = <<>>
IdleVote == ncondition = <<>> /\ nvalue = None /\ nresult = IdleFactor
IdleRace == inflight = <<>>
IdleQuery == queried = <<>>

\* Factor.__add__(self, other)
FactorAdd(self, other) ==
    IF other.vote = None
    THEN Factor(self.condition, self.vote, TRUE)
    ELSE Factor(other.condition, other.vote, FALSE)

\* Python's min(*args): the first of the smallest arguments
RECURSIVE PyMin(_)
PyMin(s) ==
    IF Len(s) = 1 THEN s[1]
    ELSE LET m == PyMin(Tail(s))
         IN  IF VoteValue(m) < VoteValue(s[1]) THEN m ELSE s[1]

\* Conclusion that skips the indeterminate Factors instead of failing them
ConclusionSkipsNone(factors, source) ==
    LET votes == [i \in DOMAIN factors |->
                    IF factors[i].vote = None THEN PASS ELSE factors[i].vote]
        conclusion == PyMin(votes \o <<PASS, PASS>>)
    IN  IF conclusion = MAYBE /\ source = MANUAL THEN PASS ELSE conclusion

\* Conclusion without the promotion of a manual MAYBE
ConclusionNotPromoted(factors, source) ==
    LET votes == [i \in DOMAIN factors |->
                    IF factors[i].vote = None THEN FAIL ELSE factors[i].vote]
    IN  PyMin(votes \o <<PASS, PASS>>)

\* Decision.conclusion, over the Decision's Factor rows and its source
Conclusion(factors, source) ==
    LET votes == [i \in DOMAIN factors |->
                    IF factors[i].vote = None THEN FAIL ELSE factors[i].vote]
        conclusion == PyMin(votes \o <<PASS, PASS>>)
    IN  IF conclusion = MAYBE /\ source = MANUAL THEN PASS ELSE conclusion

(***************************************************************************)
(* Notices and their payload                                               *)
(***************************************************************************)
SecondsPerMinute == 60

\* Notice.query(path): the first value found at the path, None if there is none
Query(notice, path) ==
    IF path = "" THEN None
    ELSE IF path \in DOMAIN notice.payload THEN notice.payload[path]
    ELSE None

\* the strings float() converts, with their values
FloatOf == [s \in {"0", "1", "5", "10", "15", "20", "25"} |->
              CASE s = "0" -> 0 [] s = "1" -> 1 [] s = "5" -> 5 [] s = "10" -> 10
                [] s = "15" -> 15 [] s = "20" -> 20 [] s = "25" -> 25]

\* float(val) raises ValueError on any other string
IsFloat(val) == val \in DOMAIN FloatOf

\* what a path resolves to when it addresses a JSON array, a JSON object or an
\* XML element rather than a string: float(val) raises TypeError
IsStructured(val) == val \in {"[10]", "{}", "<Element>"}

TypeError == "TypeError"

\* the strings dateutil.parser.parse() reads, as seconds on the model's clock
TimeOf == [s \in {"00:00:00", "00:01:00", "00:02:00"} |->
              CASE s = "00:00:00" -> 0
                [] s = "00:01:00" -> SecondsPerMinute
                [] s = "00:02:00" -> 2 * SecondsPerMinute]

IsTime(val) == val \in DOMAIN TimeOf

\* a DateTimeField(null=True) holding NULL
NoTime == 0 - 1

\* truthy(val): "true", "false" or "error" (ValueError)
Truthy(val) ==
    IF IsFloat(val) THEN (IF FloatOf[val] # 0 THEN "true" ELSE "false")
    ELSE IF val \in {"false", "no"} THEN "false"
    ELSE IF val \in {"true", "yes"} THEN "true"
    ELSE "error"

(***************************************************************************)
(* Conditions                                                              *)
(***************************************************************************)
\* NumericRangeCondition.vote(notice).  Only ValueError is caught: on a
\* structured value the TypeError of float(val) leaves vote(), which is
\* written as the vote TypeError; the payloads of the system hold strings only
NumericRangeVote(c, notice) ==
    LET val == Query(notice, c.selector)
    IN  IF val = None THEN Factor(c.str, None, FALSE)
        ELSE IF IsStructured(val) THEN Factor(c.str, TypeError, FALSE)
        ELSE IF ~IsFloat(val) THEN Factor(c.str, None, FALSE)
        ELSE IF c.val1 <= FloatOf[val] /\ FloatOf[val] < c.val2
             THEN Factor(c.str, c.if_true, FALSE)
             ELSE Factor(c.str, c.if_false, FALSE)

\* BooleanCondition.vote(notice)
BooleanVote(c, notice) ==
    LET val == Query(notice, c.selector)
    IN  IF val = None THEN Factor(c.str, None, FALSE)
        ELSE IF Truthy(val) = "error" THEN Factor(c.str, None, FALSE)
        ELSE IF Truthy(val) = "true" THEN Factor(c.str, c.if_true, FALSE)
        ELSE Factor(c.str, c.if_false, FALSE)

\* EqualityCondition.vote(notice)
EqualityVote(c, notice) ==
    LET val == Query(notice, c.selector)
    IN  IF val = None THEN Factor(c.str, None, FALSE)
        ELSE IF val \in c.vals THEN Factor(c.str, c.if_true, FALSE)
        ELSE Factor(c.str, c.if_false, FALSE)

\* ExpirationCondition.vote(notice), for t0 = event.time # None, t1 = now;
\* the notice is ignored
ExpirationVote(c, notice) ==
    IF c.t1 - c.t0 <= c.expiration * SecondsPerMinute
    THEN Factor(c.str, PASS, FALSE)
    ELSE Factor(c.str, MAYBE, FALSE)

\* c.vote(notice), by the class of c
ConditionVote(c, notice) ==
    CASE c.kind = "expiration" -> ExpirationVote(c, notice)
      [] c.kind = "numericrange" -> NumericRangeVote(c, notice)
      [] c.kind = "boolean" -> BooleanVote(c, notice)
      [] c.kind = "equality" -> EqualityVote(c, notice)

\* ExpirationCondition(event, now)
ExpirationCondition(event, t1, trigger) ==
    [kind |-> "expiration", str |-> "IF t1 - t0 <= expiry THEN Pass ELSE Maybe",
     t0 |-> event.time, t1 |-> t1, expiration |-> trigger.expiry]

\* Trigger.get_conditions()
GetConditions(trigger) ==
    trigger.numericrangeconditions \o trigger.booleanconditions
        \o trigger.equalityconditions

(***************************************************************************)
(* Events                                                                  *)
(***************************************************************************)
\* the Notice row with the given id
NoticeById(id) == notices[id]

\* a sequence of the ids in S, by ascending Notice.created
RECURSIVE OrderByCreated(_, _)
OrderByCreated(S, tbl) ==
    IF S = {} THEN <<>>
    ELSE LET first == CHOOSE i \in S :
                         \A j \in S : \/ tbl[i].created < tbl[j].created
                                      \/ (tbl[i].created = tbl[j].created /\ i <= j)
         IN  <<first>> \o OrderByCreated(S \ {first}, tbl)

Reverse(s) == [i \in 1..Len(s) |-> s[Len(s) + 1 - i]]

\* an updatetime that keeps the latest of the parsed times
UpdateTimeLatest(noticeids, tbl, time_path) ==
    LET parsed == {TimeOf[Query(tbl[i], time_path)] :
                     i \in {j \in noticeids : IsTime(Query(tbl[j], time_path))}}
    IN  IF parsed = {} THEN NoTime
        ELSE CHOOSE t \in parsed : \A u \in parsed : u <= t

\* Event.updatetime(): the earliest time any of the event's notices gives
\* at trigger.time_path; a notice whose time does not parse is skipped
UpdateTime(noticeids, tbl, time_path) ==
    LET parsed == {TimeOf[Query(tbl[i], time_path)] :
                     i \in {j \in noticeids : IsTime(Query(tbl[j], time_path))}}
    IN  IF parsed = {} THEN NoTime
        ELSE CHOOSE t \in parsed : \A u \in parsed : t <= u

\* Event.querylatest(query)
RECURSIVE FirstResult(_, _, _)
FirstResult(ids, tbl, query) ==
    IF ids = <<>> THEN None
    ELSE IF Query(tbl[Head(ids)], query) # None THEN Query(tbl[Head(ids)], query)
    ELSE FirstResult(Tail(ids), tbl, query)

QueryLatest(event, tbl, query) ==
    FirstResult(Reverse(OrderByCreated(event.notices, tbl)), tbl, query)

(***************************************************************************)
(* Telescope dispatch                                                      *)
(*                                                                         *)
(* The environment of one dispatch is a record env:                        *)
(*   http        what the observatory's endpoint does with the request:    *)
(*               "transport_error" (requests.RequestException, an HTTP     *)
(*               error status included), "invalid_json", "rejected" (a     *)
(*               response without success), "success"                      *)
(*   unexpected  the step in which an exception that is none of the four   *)
(*               Telescope exceptions is raised, or "none"                 *)
(*   sweetspots  whether the MWA sweet spot database can be read           *)
(*   tie         which of several active observations with the same finish *)
(*               the database returns first: "oldest" or "newest"          *)
(***************************************************************************)
API_OK == "api_ok"
API_FAILURE == "api_failure"
CLASH == "clash"
REQUEST_FAILURE == "request_failure"
DATA_FAILURE == "data_failure"
UNKNOWN_FAILURE == "unknown_failure"
Status == {API_OK, API_FAILURE, CLASH, REQUEST_FAILURE, DATA_FAILURE, UNKNOWN_FAILURE}

CalibrationTime == 120

\* the strings that decode (base64, FITS table) to a skymap
Skymaps == {"skymap"}

MWAKinds == {"mwacorrelator", "mwavcs", "mwagw"}

\* the attribute names of a Trigger that may hold a Telescope, as dir() lists them
TelescopeAttrs == <<"atca", "mwacorrelator", "mwagw", "mwavcs">>

\* Telescope.OBSERVATORY
Observatory(tel) == IF tel.kind = "atca" THEN "ATCA" ELSE "MWA"

\* Trigger.get_telescope(): "none" stands for None
NoTelescope == [kind |-> "none"]

GetTelescope(trigger) ==
    LET found == {i \in DOMAIN TelescopeAttrs :
                    TelescopeAttrs[i] \in DOMAIN trigger.telescopes}
    IN  IF found = {} THEN NoTelescope
        ELSE trigger.telescopes[TelescopeAttrs[CHOOSE i \in found : \A j \in found : i <= j]]

NoParams == [sent |-> FALSE]

\* float(ra), float(dec) of the latest values: do they raise?
CoordinatesParse(tel, event, tbl) ==
    LET ra == QueryLatest(event, tbl, tel.ra_path)
        dec == QueryLatest(event, tbl, tel.dec_path)
    IN  ra # None /\ dec # None /\ IsFloat(ra) /\ IsFloat(dec)

\* MWACorrelator.prepare_request, MWAVCS.prepare_request
MWAPrepareRequest(tel, trigger, event, tbl, env) ==
    IF ~CoordinatesParse(tel, event, tbl)
    THEN [outcome |-> "PreparationException", params |-> NoParams,
          log |-> <<"An error occurred attempting to parse RA,Dec values:">>]
    ELSE IF env.unexpected = "prepare"
    THEN [outcome |-> "Exception", params |-> NoParams, log |-> <<>>]
    ELSE [outcome |-> "ok",
          params |-> [sent |-> FALSE,
                      ra |-> QueryLatest(event, tbl, tel.ra_path),
                      dec |-> QueryLatest(event, tbl, tel.dec_path),
                      names |-> {"project_id", "secure_key", "calibrator", "ra", "dec",
                                 "avoidsun", "freqspecs", "tileset", "pretend"},
                      pretend |-> ~trigger.active],
          log |-> <<"API params">>]

\* MWAGW.prepare_request
MWAGWPrepareRequest(tel, trigger, event, tbl, env) ==
    IF QueryLatest(event, tbl, tel.skymap_path) \notin Skymaps
    THEN [outcome |-> "PreparationException", params |-> NoParams,
          log |-> <<"An error occurred attempting to read the skymap">>]
    ELSE IF ~env.sweetspots
    THEN [outcome |-> "PreparationException", params |-> NoParams,
          log |-> <<"Ordered SkyMap coordinates",
                    "An error occurred attempting to generate 4 sweetspot pointintings">>]
    ELSE IF env.unexpected = "prepare"
    THEN [outcome |-> "Exception", params |-> NoParams,
          log |-> <<"Ordered SkyMap coordinates">>]
    ELSE [outcome |-> "ok",
          params |-> [sent |-> FALSE, ra |-> None, dec |-> None,
                      names |-> {"project_id", "secure_key", "calibrator", "az", "alt",
                                 "avoidsun", "freqspecs", "subarrays", "pretend"},
                      pretend |-> ~trigger.active],
          log |-> <<"Ordered SkyMap coordinates", "API params">>]

\* a prepare_request that attaches the test overrides whatever the trigger
ATCAPrepareRequestOverrides(tel, trigger, event, tbl, env) ==
    IF ~CoordinatesParse(tel, event, tbl)
    THEN [outcome |-> "PreparationException", params |-> NoParams,
          log |-> <<"An error occurred attempting to parse RA,Dec values">>]
    ELSE IF env.unexpected = "prepare"
    THEN [outcome |-> "Exception", params |-> NoParams, log |-> <<>>]
    ELSE [outcome |-> "ok",
          params |-> [sent |-> FALSE,
                      ra |-> QueryLatest(event, tbl, tel.ra_path),
                      dec |-> QueryLatest(event, tbl, tel.dec_path),
                      names |-> {"email", "authenticationToken", "maximumLag", "request",
                                 "test", "emailOnly", "noTimeLimit", "noScoreLimit"},
                      pretend |-> ~trigger.active],
          log |-> <<"API params">>]

\* ATCA.prepare_request
ATCAPrepareRequest(tel, trigger, event, tbl, env) ==
    IF ~CoordinatesParse(tel, event, tbl)
    THEN [outcome |-> "PreparationException", params |-> NoParams,
          log |-> <<"An error occurred attempting to parse RA,Dec values">>]
    ELSE IF env.unexpected = "prepare"
    THEN [outcome |-> "Exception", params |-> NoParams, log |-> <<>>]
    ELSE LET istest == ~trigger.active
         IN  [outcome |-> "ok",
              params |-> [sent |-> FALSE,
                          ra |-> QueryLatest(event, tbl, tel.ra_path),
                          dec |-> QueryLatest(event, tbl, tel.dec_path),
                          names |-> {"email", "authenticationToken", "maximumLag", "request"}
                                      \cup (IF istest
                                            THEN {"test", "emailOnly", "noTimeLimit",
                                                  "noScoreLimit"}
                                            ELSE {}),
                          pretend |-> istest],
              log |-> <<"API params">>]

\* self.prepare_request(observation), by the class of the telescope
PrepareRequest(tel, trigger, event, tbl, env) ==
    CASE tel.kind \in {"mwacorrelator", "mwavcs"} ->
            MWAPrepareRequest(tel, trigger, event, tbl, env)
      [] tel.kind = "mwagw" -> MWAGWPrepareRequest(tel, trigger, event, tbl, env)
      [] tel.kind = "atca" -> ATCAPrepareRequest(tel, trigger, event, tbl, env)

\* the rows that Observation.objects.filter(status=API_OK, observatory=...,
\* finish__gte=now) selects
ActiveObservations(obs, observatory, t) ==
    {i \in DOMAIN obs : /\ obs[i].status = API_OK
                        /\ obs[i].observatory = observatory
                        /\ obs[i].finish >= t}

\* ....order_by("-finish").first(): the id of the row, 0 for None
CurrentObservation(obs, observatory, t, tie) ==
    LET active == ActiveObservations(obs, observatory, t)
        latest == {i \in active : \A j \in active : obs[j].finish <= obs[i].finish}
    IN  IF active = {} THEN 0
        ELSE IF tie = "oldest" THEN CHOOSE i \in latest : \A j \in latest : i <= j
        ELSE CHOOSE i \in latest : \A j \in latest : j <= i

\* Telescope.check_override(observation)
CheckOverride(obs, observatory, priority, t, env) ==
    LET current == CurrentObservation(obs, observatory, t, env.tie)
    IN  IF env.unexpected = "override"
        THEN [outcome |-> "Exception", log |-> <<>>]
        ELSE IF current # 0 /\ priority <= obs[current].priority
        THEN [outcome |-> "OverrideException", log |-> <<"Clashing observation">>]
        ELSE [outcome |-> "ok", log |-> <<>>]

\* the seconds an MWA observation takes
MWADuration(tel) == tel.nobs * tel.nfreq * tel.exposure + CalibrationTime

\* a make_request that lets the transport error through unclassified
MWAMakeRequestUncaught(tel, t, env) ==
    IF env.unexpected = "request" \/ env.http \in {"transport_error", "invalid_json"}
    THEN [outcome |-> "Exception", finish |-> NoTime, log |-> <<>>]
    ELSE IF env.http = "success"
    THEN [outcome |-> "ok", finish |-> t + MWADuration(tel),
          log |-> <<"Pretty API response">>]
    ELSE [outcome |-> "RejectionException", finish |-> NoTime,
          log |-> <<"Pretty API response">>]

\* MWACorrelator.make_request, MWAVCS.make_request, MWAGW.make_request
MWAMakeRequest(tel, t, env) ==
    IF env.unexpected = "request"
    THEN [outcome |-> "Exception", finish |-> NoTime, log |-> <<>>]
    ELSE IF env.http = "transport_error"
    THEN [outcome |-> "RequestException", finish |-> NoTime,
          log |-> <<"An error occurred making the HTTP request to the MWA API">>]
    ELSE IF env.http = "invalid_json"
    THEN \* the handler logs and falls through to response.get(): AttributeError
         [outcome |-> "Exception", finish |-> NoTime,
          log |-> <<"Raw API response", "The MWA API returned invalid JSON">>]
    ELSE IF env.http = "success"
    THEN [outcome |-> "ok", finish |-> t + MWADuration(tel),
          log |-> <<"Pretty API response">>]
    ELSE [outcome |-> "RejectionException", finish |-> NoTime,
          log |-> <<"Pretty API response">>]

\* ATCA.make_request
ATCAMakeRequest(tel, t, env) ==
    IF env.unexpected = "request"
    THEN [outcome |-> "Exception", finish |-> NoTime, log |-> <<>>]
    ELSE IF env.http = "transport_error"
    THEN [outcome |-> "RequestException", finish |-> NoTime,
          log |-> <<"An error occurred making the HTTP request to the ATCA API">>]
    ELSE [outcome |-> "RejectionException", finish |-> NoTime,
          log |-> <<"Raw API response">>]

\* self.make_request(observation), by the class of the telescope
MakeRequest(tel, t, env) ==
    IF tel.kind = "atca" THEN ATCAMakeRequest(tel, t, env)
    ELSE MWAMakeRequest(tel, t, env)

\* a create_observation that takes an unclassified exception for success
StatusOfSwallowed(outcome) ==
    CASE outcome = "PreparationException" -> DATA_FAILURE
      [] outcome = "OverrideException" -> CLASH
      [] outcome = "RequestException" -> REQUEST_FAILURE
      [] outcome = "RejectionException" -> API_FAILURE
      [] OTHER -> API_OK

\* the status create_observation gives for what the three steps raised
StatusOf(outcome) ==
    CASE outcome = "ok" -> API_OK
      [] outcome = "PreparationException" -> DATA_FAILURE
      [] outcome = "OverrideException" -> CLASH
      [] outcome = "RequestException" -> REQUEST_FAILURE
      [] outcome = "RejectionException" -> API_FAILURE
      [] outcome = "Exception" -> UNKNOWN_FAILURE

\* a create_observation that checks the override before it prepares
CreateObservationOverrideFirst(obs, tel, trigger, decisionid, event, tbl, t, env) ==
    LET prep == PrepareRequest(tel, trigger, event, tbl, env)
        over == CheckOverride(obs, Observatory(tel), trigger.priority, t, env)
        req == MakeRequest(tel, t, env)
        outcome == IF over.outcome # "ok" THEN over.outcome
                   ELSE IF prep.outcome # "ok" THEN prep.outcome
                   ELSE req.outcome
        steps == IF over.outcome # "ok" THEN over.log
                 ELSE IF prep.outcome # "ok" THEN over.log \o prep.log
                 ELSE over.log \o prep.log \o req.log
        requested == prep.outcome = "ok" /\ over.outcome = "ok" /\ env.unexpected # "request"
    IN  [id |-> Len(obs) + 1,
         decision |-> decisionid,
         created |-> t,
         finish |-> IF outcome = "ok" THEN req.finish ELSE NoTime,
         observatory |-> Observatory(tel),
         priority |-> trigger.priority,
         status |-> StatusOf(outcome),
         istest |-> ~trigger.active,
         log |-> IF outcome = "Exception"
                 THEN steps \o <<"An unknown exception was thrown during Telescope.create_observation()">>
                 ELSE steps,
         requests |-> IF requested THEN 1 ELSE 0,
         api_params |-> IF prep.outcome = "ok"
                        THEN [prep.params EXCEPT !.sent = requested]
                        ELSE NoParams]

\* Telescope.create_observation(decision): the Observation row it saves.
\* requests counts the HTTP requests issued and api_params holds the
\* parameters prepared; neither is a column of the row.
CreateObservation(obs, tel, trigger, decisionid, event, tbl, t, env) ==
    LET prep == PrepareRequest(tel, trigger, event, tbl, env)
        over == CheckOverride(obs, Observatory(tel), trigger.priority, t, env)
        req == MakeRequest(tel, t, env)
        outcome == IF prep.outcome # "ok" THEN prep.outcome
                   ELSE IF over.outcome # "ok" THEN over.outcome
                   ELSE req.outcome
        steps == IF prep.outcome # "ok" THEN prep.log
                 ELSE IF over.outcome # "ok" THEN prep.log \o over.log
                 ELSE prep.log \o over.log \o req.log
        requested == prep.outcome = "ok" /\ over.outcome = "ok" /\ env.unexpected # "request"
    IN  [id |-> Len(obs) + 1,
         decision |-> decisionid,
         created |-> t,
         finish |-> IF outcome = "ok" THEN req.finish ELSE NoTime,
         observatory |-> Observatory(tel),
         priority |-> trigger.priority,
         status |-> StatusOf(outcome),
         istest |-> ~trigger.active,
         log |-> IF outcome = "Exception"
                 THEN steps \o <<"An unknown exception was thrown during Telescope.create_observation()">>
                 ELSE steps,
         requests |-> IF requested THEN 1 ELSE 0,
         api_params |-> IF prep.outcome = "ok"
                        THEN [prep.params EXCEPT !.sent = requested]
                        ELSE NoParams]

(***************************************************************************)
(* Decisions                                                               *)
(***************************************************************************)
\* the Event row of a trigger and group id
EventOf(evts, tid, groupid) ==
    CHOOSE e \in evts : e.trigger = tid /\ e.groupid = groupid

\* the notices of the event whatever their created
QualifyingNoticesAll(event, created, tbl) == OrderByCreated(event.notices, tbl)

\* self.event.notices.filter(created__lte=self.created).order_by("created")
QualifyingNotices(event, created, tbl) ==
    OrderByCreated({i \in event.notices : tbl[i].created <= created}, tbl)

\* factors = [c.vote(notice) for c in conditions] for the oldest notice, then
\* factors[i] += c.vote(notice) for each later one
RECURSIVE FoldFactors(_, _, _, _)
FoldFactors(factors, conditions, ids, tbl) ==
    IF ids = <<>> THEN factors
    ELSE FoldFactors([i \in DOMAIN conditions |->
                        FactorAdd(factors[i], ConditionVote(conditions[i], tbl[Head(ids)]))],
                     conditions, Tail(ids), tbl)

\* the Factor rows Decision.save attaches; raised tells that
\* ExpirationCondition.vote raised TypeError (event.time is None), which
\* leaves the Decision row without Factor rows
DecisionFactors(event, trigger, created, tbl) ==
    LET ids == QualifyingNotices(event, created, tbl)
        conditions == <<ExpirationCondition(event, created, trigger)>>
                          \o GetConditions(trigger)
    IN  IF ids = <<>>
        THEN [raised |-> FALSE,
              factors |-> <<Factor("Event contains no notices", FAIL, FALSE)>>]
        ELSE IF event.time = NoTime
        THEN [raised |-> TRUE, factors |-> <<>>]
        ELSE [raised |-> FALSE,
              factors |-> FoldFactors(
                  [i \in DOMAIN conditions |-> ConditionVote(conditions[i], tbl[Head(ids)])],
                  conditions, Tail(ids), tbl)]

\* isreal() that takes a simulated Decision for a real one
IsRealAlways(source) == TRUE

\* Decision.isreal()
IsReal(source) == source # SIMULATED

\* the primary key a new row of the table gets: one more than the largest there
NextId(rows) ==
    LET ids == {rows[i].id : i \in DOMAIN rows} \cup {0}
    IN  1 + CHOOSE m \in ids : \A n \in ids : n <= m

\* Decision.save() of a new Decision: the tables after it, and whether it raised
DecisionSave(st, event, created, source, tbl, trigs, env) ==
    LET trigger == trigs[event.trigger]
        f == DecisionFactors(event, trigger, created, tbl)
        decision == [id |-> NextId(st.decisions),
                     event |-> <<event.trigger, event.groupid>>,
                     created |-> created,
                     source |-> source,
                     factors |-> f.factors,
                     raised |-> f.raised]
        telescope == GetTelescope(trigger)
    IN  IF /\ ~f.raised
           /\ IsReal(source)
           /\ Conclusion(f.factors, source) = PASS
           /\ telescope # NoTelescope
        THEN [st EXCEPT !.decisions = Append(@, decision),
                        !.observations = Append(@,
                            CreateObservation(st.observations, telescope, trigger,
                                              decision.id, event, tbl, created, env))]
        ELSE [st EXCEPT !.decisions = Append(@, decision),
                        !.raised = f.raised]

(***************************************************************************)
(* Signal handlers and views                                               *)
(***************************************************************************)
\* Trigger.get_or_create_event(notice), with the m2m_changed handler
\* no_event_notices_changed that follows the attachment: the Event table
\* after it and the group id of the event ("None" when None is returned)
GetOrCreateEvent(evts, tid, trigs, notice, tbl) ==
    LET trigger == trigs[tid]
        groupid == Query(notice, trigger.groupby)
        old == {e \in evts : e.trigger = tid /\ e.groupid = groupid}
        ids == (IF old = {} THEN {} ELSE (CHOOSE e \in old : TRUE).notices) \cup {notice.id}
        event == [trigger |-> tid, groupid |-> groupid, notices |-> ids,
                  time |-> UpdateTime(ids, tbl, trigger.time_path)]
    IN  IF notice.stream \notin trigger.streams THEN [events |-> evts, groupid |-> None]
        ELSE IF groupid = None THEN [events |-> evts, groupid |-> None]
        ELSE [events |-> (evts \ old) \cup {event}, groupid |-> groupid]

\* Trigger.objects.order_by("-priority")
RECURSIVE OrderByPriority(_, _)
OrderByPriority(tids, trigs) ==
    IF tids = {} THEN <<>>
    ELSE LET first == CHOOSE t \in tids :
                        \A u \in tids : trigs[u].priority <= trigs[t].priority
         IN  <<first>> \o OrderByPriority(tids \ {first}, trigs)

\* on_notice_save that runs the triggers for a test notice as well
RECURSIVE ForEachTriggerTestsToo(_, _, _, _, _, _)
ForEachTriggerTestsToo(tids, st, notice, tbl, trigs, envs) ==
    IF tids = <<>> \/ st.raised THEN st
    ELSE LET tid == Head(tids)
             got == GetOrCreateEvent(st.events, tid, trigs, notice, tbl)
             st1 == [st EXCEPT !.events = got.events]
             st2 == IF got.groupid = None THEN st1
                    ELSE DecisionSave(st1, EventOf(got.events, tid, got.groupid),
                                      now, NOTICE, tbl, trigs, envs[tid])
         IN  ForEachTriggerTestsToo(Tail(tids), st2, notice, tbl, trigs, envs)

\* the loop of on_notice_save over the triggers; a Decision.save that raises
\* ends it
RECURSIVE ForEachTrigger(_, _, _, _, _, _)
ForEachTrigger(tids, st, notice, tbl, trigs, envs) ==
    IF tids = <<>> \/ st.raised THEN st
    ELSE LET tid == Head(tids)
             got == GetOrCreateEvent(st.events, tid, trigs, notice, tbl)
             st1 == [st EXCEPT !.events = got.events]
             st2 == IF got.groupid = None \/ notice.istest THEN st1
                    ELSE DecisionSave(st1, EventOf(got.events, tid, got.groupid),
                                      now, NOTICE, tbl, trigs, envs[tid])
         IN  ForEachTrigger(Tail(tids), st2, notice, tbl, trigs, envs)

Tables == [events |-> events, decisions |-> decisions,
           observations |-> observations, raised |-> FALSE]

\* a Notice with the given created is saved and on_notice_save runs; the
\* clock is left to the caller
NoticeSaved(stream, istest, created, payload, envs) ==
    LET notice == [id |-> Len(notices) + 1, stream |-> stream, created |-> created,
                   istest |-> istest, payload |-> payload]
        tbl == Append(notices, notice)
        st == ForEachTrigger(OrderByPriority(DOMAIN triggers, triggers), Tables,
                             notice, tbl, triggers, envs)
    IN  /\ notices' = tbl
        /\ \E after \in {st} :
              /\ events' = after.events
              /\ decisions' = after.decisions
              /\ observations' = after.observations
        /\ UNCHANGED triggers

\* a Notice is saved as it arrives (listengcn), created now, and
\* on_notice_save runs; the clock is left to the caller
OnNoticeSave(stream, istest, payload, envs) ==
    /\ \A i \in DOMAIN notices : notices[i].created < now
    /\ NoticeSaved(stream, istest, now, payload, envs)

\* TriggerView.post: a manual retrigger of an event; the clock is left to the
\* caller
TriggerViewPost(tid, groupid, env) ==
    LET st == DecisionSave(Tables, EventOf(events, tid, groupid), now, MANUAL,
                           notices, triggers, env)
    IN  /\ \E e \in events : e.trigger = tid /\ e.groupid = groupid
        /\ \E after \in {st} :
              /\ decisions' = after.decisions
              /\ observations' = after.observations
        /\ UNCHANGED <<notices, triggers, events>>

\* Decision.objects.get_or_create(event=..., created=notice.created,
\* source=SIMULATED) for each of the notices of one event
RECURSIVE SimulateNotices(_, _, _, _, _, _)
SimulateNotices(ids, st, event, tbl, trigs, env) ==
    IF ids = <<>> \/ st.raised THEN st
    ELSE LET created == tbl[Head(ids)].created
             exists == \E i \in DOMAIN st.decisions :
                          /\ st.decisions[i].event = <<event.trigger, event.groupid>>
                          /\ st.decisions[i].created = created
                          /\ st.decisions[i].source = SIMULATED
             st1 == IF exists THEN st
                    ELSE DecisionSave(st, event, created, SIMULATED, tbl, trigs, env)
         IN  SimulateNotices(Tail(ids), st1, event, tbl, trigs, env)

\* trigger.events.order_by("-time")
RECURSIVE OrderByTimeDesc(_)
OrderByTimeDesc(evts) ==
    IF evts = {} THEN <<>>
    ELSE LET first == CHOOSE e \in evts : \A f \in evts : f.time <= e.time
         IN  <<first>> \o OrderByTimeDesc(evts \ {first})

RECURSIVE SimulateEvents(_, _, _, _, _)
SimulateEvents(evts, st, tbl, trigs, env) ==
    IF evts = <<>> \/ st.raised THEN st
    ELSE SimulateEvents(Tail(evts),
                        SimulateNotices(OrderByCreated(Head(evts).notices, tbl), st,
                                        Head(evts), tbl, trigs, env),
                        tbl, trigs, env)

\* TriggerView.get: the page of a trigger simulates a Decision at each notice
TriggerViewGet(tid, env) ==
    LET st == SimulateEvents(OrderByTimeDesc({e \in events : e.trigger = tid}),
                             Tables, notices, triggers, env)
    IN  /\ \E after \in {st} :
              /\ after.decisions # decisions
              /\ decisions' = after.decisions
              /\ observations' = after.observations
        /\ UNCHANGED <<now, notices, triggers, events>>

\* a minute passes
Tick ==
    /\ now < MaxTicks * SecondsPerMinute
    /\ now' = now + SecondsPerMinute
    /\ UNCHANGED <<notices, triggers, events, decisions, observations>>

(***************************************************************************)
(* The system: two triggers on one stream, notices of one group            *)
(***************************************************************************)
NumericCondition(selector, val1, val2, if_true, if_false) ==
    [kind |-> "numericrange", str |-> "IF val1 <= selector < val2",
     selector |-> selector, val1 |-> val1, val2 |-> val2,
     if_true |-> if_true, if_false |-> if_false]

BooleanCondition(selector, if_true, if_false) ==
    [kind |-> "boolean", str |-> "IF selector", selector |-> selector,
     if_true |-> if_true, if_false |-> if_false]

EqualityCondition(selector, vals, if_true, if_false) ==
    [kind |-> "equality", str |-> "IF selector IN vals", selector |-> selector,
     vals |-> vals, if_true |-> if_true, if_false |-> if_false]

TelescopeConfig(kind, nobs, nfreq, exposure) ==
    [kind |-> kind, ra_path |-> "ra", dec_path |-> "dec", skymap_path |-> "skymap",
     nobs |-> nobs, nfreq |-> nfreq, exposure |-> exposure]

NoTelescopes == [a \in {} |-> NoTelescope]

TriggerConfig(priority, active, expiry, numeric, boolean, equality, telescopes) ==
    [priority |-> priority, active |-> active, streams |-> {"s1"},
     groupby |-> "grp", time_path |-> "time", expiry |-> expiry,
     numericrangeconditions |-> numeric, booleanconditions |-> boolean,
     equalityconditions |-> equality, telescopes |-> telescopes]

SysTriggers ==
    [tid \in {"T1", "T2"} |->
        IF tid = "T1"
        THEN TriggerConfig(2, TRUE, 1,
                           <<NumericCondition("val", 10, 20, PASS, FAIL)>>, <<>>, <<>>,
                           [a \in {"mwacorrelator"} |-> TelescopeConfig(a, 1, 2, 8)])
        ELSE TriggerConfig(1, FALSE, 1,
                           <<>>, <<BooleanCondition("val", PASS, MAYBE)>>,
                           <<EqualityCondition("val", {"10", "15"}, PASS, FAIL)>>,
                           NoTelescopes)]

Payload(time, val) ==
    [grp |-> "g1", time |-> time, val |-> val, ra |-> "10", dec |-> "10",
     skymap |-> "skymap"]

\* the clock when the first notice arrives
StartTime == 2 * SecondsPerMinute

\* the payloads of the notices the streams deliver: with the time of a recent
\* event, of an event long ago, or with a time that does not parse
SysPayloads ==
    {Payload("00:02:00", None), Payload("00:02:00", "0"), Payload("00:02:00", "10"),
     Payload("00:00:00", "10"), Payload("soon", "10")}

\* the payloads of the test notices a user enters (NoticeCreate)
SysTestPayloads == {Payload("00:02:00", "10")}

SysEnvs ==
    [http : {"success", "rejected"},
     unexpected : {"none"}, sweetspots : {TRUE}, tie : {"newest"}]

\* the environment of a handler that dispatches nothing
NoDispatch ==
    [http |-> "transport_error", unexpected |-> "none", sweetspots |-> TRUE,
     tie |-> "newest"]

\* the environment of a handler that dispatches for one trigger at most
OneEnv(env) == [tid \in {"T1", "T2"} |-> env]

Init ==
    /\ now = StartTime
    /\ notices = <<>>
    /\ triggers = SysTriggers
    /\ events = {}
    /\ decisions = <<>>
    /\ observations = <<>>
    /\ acc = IdleFactor /\ prev = IdleFactor /\ evs = <<>>
    /\ dfactors = <<>> /\ dsource = NOTICE /\ dconclusion = PASS
    /\ IdlePointing /\ IdleVote /\ IdleRace /\ IdleQuery

\* a notice arrives and is handled; whatever happens next happens a second
\* later at the earliest
NoticeArrives ==
    /\ Len(notices) < MaxNotices
    /\ \/ \E payload \in SysPayloads, env \in SysEnvs :
             OnNoticeSave("s1", FALSE, payload, OneEnv(env))
       \/ \E payload \in SysTestPayloads :
             OnNoticeSave("s1", TRUE, payload, OneEnv(NoDispatch))
    /\ now' = now + 1
    /\ UNCHANGED <<addvars, conclvars, pointvars, votevars, racevars, queryvars>>

ManualRetrigger ==
    /\ Cardinality({i \in DOMAIN decisions : decisions[i].source = MANUAL}) < MaxManual
    /\ \E tid \in DOMAIN triggers, env \in SysEnvs : TriggerViewPost(tid, "g1", env)
    /\ now' = now + 1
    /\ UNCHANGED <<addvars, conclvars, pointvars, votevars, racevars, queryvars>>

ViewTrigger ==
    /\ TriggerViewGet("T1", NoDispatch)
    /\ UNCHANGED <<addvars, conclvars, pointvars, votevars, racevars, queryvars>>

Next == NoticeArrives \/ ManualRetrigger \/ ViewTrigger

Spec == Init /\ [][Next]_vars

(***************************************************************************)
(* The archive: two triggers that listen to different streams and group by *)
(* different selectors; notices of two streams, with and without group id  *)
(* and time; test notices entered with a created of the user's choice      *)
(***************************************************************************)
ArchTriggers ==
    [tid \in {"A1", "A2"} |->
        IF tid = "A1"
        THEN TriggerConfig(2, TRUE, 1,
                           <<NumericCondition("val", 10, 20, PASS, FAIL)>>, <<>>, <<>>,
                           [a \in {"mwacorrelator"} |-> TelescopeConfig(a, 1, 2, 8)])
        ELSE [TriggerConfig(1, TRUE, 1,
                            <<>>, <<BooleanCondition("val", PASS, FAIL)>>, <<>>,
                            NoTelescopes)
                 EXCEPT !.streams = {"s1", "s2"}, !.groupby = "alt"]]

ArchPayload(grp, alt, time, val) ==
    [grp |-> grp, alt |-> alt, time |-> time, val |-> val, ra |-> "10", dec |-> "10",
     skymap |-> "skymap"]

\* the notices the streams deliver: <<stream, payload>>
ArchNotices ==
    {<<"s1", ArchPayload("g1", "g1", "00:01:00", "10")>>,
     <<"s1", ArchPayload("g1", None, "soon", "20")>>,
     <<"s2", ArchPayload("g1", "g1", "00:02:00", "10")>>,
     <<"s1", ArchPayload(None, "g2", "00:00:00", "10")>>,
     <<"s1", ArchPayload("g2", "g1", None, None)>>}

\* the test notices a user enters
ArchTestNotices == {<<"s1", ArchPayload("g1", "g1", "00:02:00", "10")>>}

ArchEnv ==
    [http |-> "success", unexpected |-> "none", sweetspots |-> TRUE, tie |-> "newest"]

ArchEnvs == [tid \in {"A1", "A2"} |-> ArchEnv]

ArchInit ==
    /\ now = StartTime
    /\ notices = <<>>
    /\ triggers = ArchTriggers
    /\ events = {}
    /\ decisions = <<>>
    /\ observations = <<>>
    /\ acc = IdleFactor /\ prev = IdleFactor /\ evs = <<>>
    /\ dfactors = <<>> /\ dsource = NOTICE /\ dconclusion = PASS
    /\ IdlePointing /\ IdleVote /\ IdleRace /\ IdleQuery

\* listengcn saves a notice of a stream
ArchNoticeArrives ==
    /\ Len(notices) < MaxArrivals
    /\ \E n \in ArchNotices : NoticeSaved(n[1], FALSE, now, n[2], ArchEnvs)
    /\ now' = now + 1
    /\ UNCHANGED <<addvars, conclvars, pointvars, votevars, racevars, queryvars>>

\* NoticeCreate.post: a test notice, created now or a minute from now
ArchTestNoticeEntered ==
    /\ Len(notices) < MaxArrivals
    /\ \E n \in ArchTestNotices, created \in {now, now + SecondsPerMinute} :
          NoticeSaved(n[1], TRUE, created, n[2], ArchEnvs)
    /\ now' = now + 1
    /\ UNCHANGED <<addvars, conclvars, pointvars, votevars, racevars, queryvars>>

ArchManualRetrigger ==
    /\ Cardinality({i \in DOMAIN decisions : decisions[i].source = MANUAL}) < MaxManual
    /\ \E e \in events : TriggerViewPost(e.trigger, e.groupid, ArchEnv)
    /\ now' = now + 1
    /\ UNCHANGED <<addvars, conclvars, pointvars, votevars, racevars, queryvars>>

ArchNext == ArchNoticeArrives \/ ArchTestNoticeEntered \/ ArchManualRetrigger

SpecArchive == ArchInit /\ [][ArchNext]_vars

(***************************************************************************)
(* Telescope.create_observation on its own: four triggers, each with one   *)
(* telescope, dispatch for an event that holds one notice                  *)
(***************************************************************************)
DispatchTriggers ==
    [tid \in {"D1", "D2", "D3", "D4"} |->
        CASE tid = "D1" ->
                TriggerConfig(1, TRUE, 1, <<>>, <<>>, <<>>,
                              [a \in {"mwacorrelator"} |-> TelescopeConfig(a, 2, 2, 8)])
          [] tid = "D2" ->
                TriggerConfig(3, TRUE, 1, <<>>, <<>>, <<>>,
                              [a \in {"mwavcs"} |-> TelescopeConfig(a, 1, 1, 8)])
          [] tid = "D3" ->
                TriggerConfig(2, FALSE, 1, <<>>, <<>>, <<>>,
                              [a \in {"mwagw"} |-> TelescopeConfig(a, 1, 2, 8)])
          [] tid = "D4" ->
                TriggerConfig(2, TRUE, 1, <<>>, <<>>, <<>>,
                              [a \in {"atca"} |-> TelescopeConfig(a, 0, 0, 0)])]

\* what the notice of the event gives for the coordinates and the skymap
DispatchPayload(ra, skymap) ==
    [grp |-> "g1", time |-> "00:00:00", val |-> "10", ra |-> ra, dec |-> "10",
     skymap |-> skymap]

DispatchPayloads ==
    {DispatchPayload("10", "skymap"), DispatchPayload(None, None),
     DispatchPayload("north", "garbage")}

DispatchEnvs ==
    [http : {"success", "rejected", "transport_error", "invalid_json"},
     unexpected : {"none"}, sweetspots : {TRUE}, tie : {"newest"}]
    \cup [http : {"success"}, unexpected : {"prepare", "override", "request"},
          sweetspots : {TRUE}, tie : {"newest"}]
    \cup [http : {"success"}, unexpected : {"none"}, sweetspots : {FALSE},
          tie : {"newest"}]

\* the environments of the override check: the request goes through
OverrideEnvs ==
    [http : {"success", "rejected"}, unexpected : {"none"},
     sweetspots : {TRUE}, tie : {"oldest", "newest"}]

\* telescope.create_observation(decision) for a Decision of an event of
\* trigger tid whose one notice holds the payload
Dispatch(tid, payload, env) ==
    LET notice == [id |-> 1, stream |-> "s1", created |-> 0, istest |-> FALSE,
                   payload |-> payload]
        event == [trigger |-> tid, groupid |-> "g1", notices |-> {1}, time |-> 0]
    IN  /\ observations' = Append(observations,
              CreateObservation(observations, GetTelescope(triggers[tid]), triggers[tid],
                                Len(observations) + 1, event, <<notice>>, now, env))
        /\ UNCHANGED <<now, notices, triggers, events, decisions>>

DispatchInit ==
    /\ now = 0
    /\ notices = <<>>
    /\ triggers = DispatchTriggers
    /\ events = {}
    /\ decisions = <<>>
    /\ observations = <<>>
    /\ acc = IdleFactor /\ prev = IdleFactor /\ evs = <<>>
    /\ dfactors = <<>> /\ dsource = NOTICE /\ dconclusion = PASS
    /\ IdlePointing /\ IdleVote /\ IdleRace /\ IdleQuery

TimePasses == Tick /\ UNCHANGED <<addvars, conclvars, pointvars, votevars, racevars, queryvars>>

\* every outcome of every step, for a few dispatches
DispatchAny ==
    /\ Len(observations) < MaxDispatches
    /\ \E tid \in DOMAIN triggers, payload \in DispatchPayloads, env \in DispatchEnvs :
          Dispatch(tid, payload, env)
    /\ UNCHANGED <<addvars, conclvars, pointvars, votevars, racevars, queryvars>>

SpecDispatch == DispatchInit /\ [][DispatchAny]_vars

\* dispatches that prepare well, for more observations
DispatchPrepared ==
    /\ Len(observations) < MaxObservations
    /\ \E tid \in DOMAIN triggers, env \in OverrideEnvs :
          Dispatch(tid, DispatchPayload("10", "skymap"), env)
    /\ UNCHANGED <<addvars, conclvars, pointvars, votevars, racevars, queryvars>>

OverrideNext == DispatchPrepared \/ TimePasses

SpecOverride == DispatchInit /\ [][OverrideNext]_vars

(***************************************************************************)
(* Test and live dispatches: an active and an inactive trigger for each    *)
(* class of telescope                                                      *)
(***************************************************************************)
PretendKinds == {"mwacorrelator", "mwavcs", "mwagw", "atca"}

\* the trigger ids: <<kind, active>>
PretendTriggers ==
    [tid \in PretendKinds \X BOOLEAN |->
        TriggerConfig(1, tid[2], 1, <<>>, <<>>, <<>>,
                      [a \in {tid[1]} |-> TelescopeConfig(a, 1, 1, 8)])]

PretendPayloads == {DispatchPayload("10", "skymap"), DispatchPayload("north", "garbage")}

PretendEnvs ==
    [http : {"success", "transport_error"}, unexpected : {"none"},
     sweetspots : {TRUE}, tie : {"newest"}]

PretendInit ==
    /\ now = 0
    /\ notices = <<>>
    /\ triggers = PretendTriggers
    /\ events = {}
    /\ decisions = <<>>
    /\ observations = <<>>
    /\ acc = IdleFactor /\ prev = IdleFactor /\ evs = <<>>
    /\ dfactors = <<>> /\ dsource = NOTICE /\ dconclusion = PASS
    /\ IdlePointing /\ IdleVote /\ IdleRace /\ IdleQuery

\* a dispatch of any of the triggers
PretendDispatch ==
    /\ Len(observations) < MaxDispatches
    /\ \E tid \in DOMAIN triggers, payload \in PretendPayloads, env \in PretendEnvs :
          Dispatch(tid, payload, env)
    /\ UNCHANGED <<addvars, conclvars, pointvars, votevars, racevars, queryvars>>

SpecPretend == PretendInit /\ [][PretendDispatch]_vars

(***************************************************************************)
(* Contention: three triggers of different priorities for the MWA; H and L *)
(* listen to stream s1, Z to stream s2 and asks for the longest            *)
(* observation                                                             *)
(***************************************************************************)
ContendTriggers ==
    [tid \in {"H", "L", "Z"} |->
        CASE tid = "H" ->
                TriggerConfig(3, TRUE, 1, <<>>, <<>>, <<>>,
                              [a \in {"mwacorrelator"} |-> TelescopeConfig(a, 1, 1, 8)])
          [] tid = "L" ->
                TriggerConfig(2, TRUE, 1, <<>>, <<>>, <<>>,
                              [a \in {"mwavcs"} |-> TelescopeConfig(a, 1, 1, 8)])
          [] tid = "Z" ->
                [TriggerConfig(1, TRUE, 1, <<>>, <<>>, <<>>,
                               [a \in {"mwavcs"} |-> TelescopeConfig(a, 2, 2, 8)])
                    EXCEPT !.streams = {"s2"}]]

ContendPayload == ArchPayload("g1", "g1", "00:02:00", "10")

\* what the MWA answers to each trigger's request
ContendEnvs ==
    [{"H", "L", "Z"} ->
        [http : {"success", "rejected", "transport_error"}, unexpected : {"none"},
         sweetspots : {TRUE}, tie : {"newest"}]]

ContendInit ==
    /\ now = StartTime
    /\ notices = <<>>
    /\ triggers = ContendTriggers
    /\ events = {}
    /\ decisions = <<>>
    /\ observations = <<>>
    /\ acc = IdleFactor /\ prev = IdleFactor /\ evs = <<>>
    /\ dfactors = <<>> /\ dsource = NOTICE /\ dconclusion = PASS
    /\ IdlePointing /\ IdleVote /\ IdleRace /\ IdleQuery

\* a notice of either stream arrives
ContendNoticeArrives ==
    /\ Len(notices) < MaxArrivals
    /\ \E stream \in {"s1", "s2"}, envs \in ContendEnvs :
          NoticeSaved(stream, FALSE, now, ContendPayload, envs)
    /\ now' = now + 1
    /\ UNCHANGED <<addvars, conclvars, pointvars, votevars, racevars, queryvars>>

ContendNext == ContendNoticeArrives \/ TimePasses

SpecContend == ContendInit /\ [][ContendNext]_vars

(***************************************************************************)
(* Concurrent dispatches: the notice listener and the web server are two   *)
(* processes, each of which may be inside create_observation; the override *)
(* check reads the Observation table and the row is written by             *)
(* observation.save() at the end, with nothing held in between             *)
(***************************************************************************)
Processes == {"listener", "web"}

IdleCall == [pc |-> "idle", tid |-> "", seen |-> <<>>]

RaceTriggers ==
    [tid \in {"P1", "P2", "P3"} |->
        CASE tid = "P1" ->
                TriggerConfig(1, TRUE, 1, <<>>, <<>>, <<>>,
                              [a \in {"mwacorrelator"} |-> TelescopeConfig(a, 1, 1, 8)])
          [] tid = "P2" ->
                TriggerConfig(2, TRUE, 1, <<>>, <<>>, <<>>,
                              [a \in {"mwavcs"} |-> TelescopeConfig(a, 1, 2, 8)])
          [] tid = "P3" ->
                TriggerConfig(2, FALSE, 1, <<>>, <<>>, <<>>,
                              [a \in {"mwagw"} |-> TelescopeConfig(a, 2, 2, 8)])]

RaceEnvs ==
    [http : {"success", "rejected"}, unexpected : {"none"},
     sweetspots : {TRUE}, tie : {"newest"}]

RaceInit ==
    /\ now = 0
    /\ notices = <<>>
    /\ triggers = RaceTriggers
    /\ events = {}
    /\ decisions = <<>>
    /\ observations = <<>>
    /\ acc = IdleFactor /\ prev = IdleFactor /\ evs = <<>>
    /\ dfactors = <<>> /\ dsource = NOTICE /\ dconclusion = PASS
    /\ IdlePointing /\ IdleVote /\ IdleQuery
    /\ inflight = [p \in Processes |-> IdleCall]

\* a check_override that would read the table at the time of the save
SeenAtSave(p) == observations

\* the Observation table as check_override of the call of process p read it
SeenAtCheck(p) == inflight[p].seen

\* process p enters create_observation for a Decision of trigger tid and
\* runs prepare_request and check_override
CheckStep(p, tid) ==
    /\ inflight[p].pc = "idle"
    /\ Len(observations) + Cardinality({q \in Processes : inflight[q].pc # "idle"})
          < MaxDispatches
    /\ inflight' = [inflight EXCEPT ![p] = [pc |-> "checked", tid |-> tid,
                                            seen |-> observations]]
    /\ UNCHANGED <<sysvars, addvars, conclvars, pointvars, votevars, queryvars>>

\* process p runs make_request, if the steps before let it, and
\* observation.save()
FinishStep(p, env) ==
    LET tid == inflight[p].tid
        notice == [id |-> 1, stream |-> "s1", created |-> 0, istest |-> FALSE,
                   payload |-> DispatchPayload("10", "skymap")]
        event == [trigger |-> tid, groupid |-> "g1", notices |-> {1}, time |-> 0]
        row == CreateObservation(SeenAtCheck(p), GetTelescope(triggers[tid]),
                                 triggers[tid], Len(observations) + 1, event,
                                 <<notice>>, now, env)
    IN  /\ inflight[p].pc = "checked"
        /\ observations' = Append(observations,
                                  [row EXCEPT !.id = Len(observations) + 1])
        /\ inflight' = [inflight EXCEPT ![p] = IdleCall]
        /\ UNCHANGED <<now, notices, triggers, events, decisions,
                       addvars, conclvars, pointvars, votevars, queryvars>>

RaceCheck == \E p \in Processes, tid \in DOMAIN triggers : CheckStep(p, tid)

RaceFinish == \E p \in Processes, env \in RaceEnvs : FinishStep(p, env)

RaceNext == RaceCheck \/ RaceFinish

SpecRace == RaceInit /\ [][RaceNext]_vars

(***************************************************************************)
(* Dispatch attempts: one trigger with an MWA telescope, whose notices and *)
(* manual retriggers are answered by the observatory in every way          *)
(***************************************************************************)
RetryTriggers ==
    [tid \in {"R1"} |->
        TriggerConfig(1, TRUE, 1, <<>>, <<>>, <<>>,
                      [a \in {"mwacorrelator"} |-> TelescopeConfig(a, 1, 1, 8)])]

RetryPayload == ArchPayload("g1", "g1", "00:02:00", "10")

RetryEnvs ==
    [http : {"success", "rejected", "transport_error"},
     unexpected : {"none"}, sweetspots : {TRUE}, tie : {"newest"}]

RetryInit ==
    /\ now = StartTime
    /\ notices = <<>>
    /\ triggers = RetryTriggers
    /\ events = {}
    /\ decisions = <<>>
    /\ observations = <<>>
    /\ acc = IdleFactor /\ prev = IdleFactor /\ evs = <<>>
    /\ dfactors = <<>> /\ dsource = NOTICE /\ dconclusion = PASS
    /\ IdlePointing /\ IdleVote /\ IdleRace /\ IdleQuery

\* a notice arrives while the observatory answers as env tells
RetryNotice(env) ==
    /\ Len(notices) < MaxArrivals
    /\ NoticeSaved("s1", FALSE, now, RetryPayload, [tid \in {"R1"} |-> env])
    /\ now' = now + 1
    /\ UNCHANGED <<addvars, conclvars, pointvars, votevars, racevars, queryvars>>

\* TriggerView.post while the observatory answers as env tells
RetryManual(env) ==
    /\ now - StartTime - Len(notices) < MaxAttempts
    /\ TriggerViewPost("R1", "g1", env)
    /\ now' = now + 1
    /\ UNCHANGED <<addvars, conclvars, pointvars, votevars, racevars, queryvars>>

RetryNoticeArrives == \E env \in RetryEnvs : RetryNotice(env)

RetryManualRetrigger == \E env \in RetryEnvs : RetryManual(env)

RetryNext == RetryNoticeArrives \/ RetryManualRetrigger

SpecRetry == RetryInit /\ [][RetryNext]_vars

(***************************************************************************)
(* Configuration changes: a trigger whose conditions, group-by selector    *)
(* and streams are edited while notices arrive, with a second trigger that *)
(* is left alone                                                           *)
(***************************************************************************)
CfgTriggers ==
    [tid \in {"K1", "K2"} |->
        IF tid = "K1"
        THEN TriggerConfig(2, TRUE, 1,
                           <<NumericCondition("val", 10, 20, PASS, FAIL)>>,
                           <<BooleanCondition("val", PASS, FAIL)>>,
                           <<EqualityCondition("val", {"10"}, PASS, FAIL)>>,
                           NoTelescopes)
        ELSE [TriggerConfig(1, TRUE, 1, <<>>, <<>>, <<>>, NoTelescopes)
                 EXCEPT !.groupby = "alt"]]

\* the notices the streams deliver: <<stream, payload>>
CfgNotices ==
    {<<"s1", ArchPayload("g1", "g2", "00:01:00", "10")>>,
     <<"s1", ArchPayload("g2", "g1", "00:02:00", "10")>>,
     <<"s2", ArchPayload("g1", "g1", "00:02:00", "20")>>}

\* the streams K1 is made to listen to or not
CfgStreams == {"s1"}

CfgEnvs == [tid \in {"K1", "K2"} |-> ArchEnv]

\* QuerySet.delete() of Decisions: the Observations of a deleted Decision stay,
\* with decision set to NULL (on_delete=SET_NULL)
DeleteDecisions(st, ids) ==
    LET kept(d) == d.id \notin ids
    IN  [st EXCEPT !.decisions = SelectSeq(st.decisions, kept),
                   !.observations = [i \in DOMAIN st.observations |->
                        IF st.observations[i].decision \in ids
                        THEN [st.observations[i] EXCEPT !.decision = 0]
                        ELSE st.observations[i]]]

\* the first loop of resync_events: get_or_create_event for each archived
\* notice; matched collects the group ids of the events returned
RECURSIVE ResyncNotices(_, _, _, _, _, _)
ResyncNotices(ids, evts, matched, tid, trigs, tbl) ==
    IF ids = <<>> THEN [events |-> evts, matched |-> matched]
    ELSE LET got == GetOrCreateEvent(evts, tid, trigs, tbl[Head(ids)], tbl)
         IN  ResyncNotices(Tail(ids), got.events,
                           IF got.groupid = None THEN matched
                           ELSE matched \cup {got.groupid},
                           tid, trigs, tbl)

\* resync_events(trigger): the events of the archived notices of the
\* trigger's streams are got or created, the trigger's other events are
\* deleted, their Decisions with them (on_delete=CASCADE), and the times of
\* the events are set again
ResyncEvents(st, tid, trigs, tbl) ==
    LET archived == OrderByCreated({i \in DOMAIN tbl : tbl[i].stream \in trigs[tid].streams}, tbl)
        synced == ResyncNotices(archived, st.events, {}, tid, trigs, tbl)
        gone == {e \in synced.events : e.trigger = tid /\ e.groupid \notin synced.matched}
        cascaded == {st.decisions[i].id :
                        i \in {j \in DOMAIN st.decisions :
                                  \E e \in gone :
                                      st.decisions[j].event = <<e.trigger, e.groupid>>}}
        st1 == DeleteDecisions(st, cascaded)
    IN  [st1 EXCEPT !.events =
            {[e EXCEPT !.time = IF e.trigger = tid
                                THEN UpdateTime(e.notices, tbl, trigs[tid].time_path)
                                ELSE e.time] : e \in synced.events \ gone}]

\* on_condition_save(instance) for a condition of the given class: only
\* NumericRangeCondition and BooleanCondition are senders it is connected to
OnConditionSave(st, tid, kind) ==
    LET simulated == {st.decisions[i].id :
                         i \in {j \in DOMAIN st.decisions :
                                   /\ st.decisions[j].event[1] = tid
                                   /\ st.decisions[j].source = SIMULATED}}
    IN  IF kind \in {"numericrange", "boolean"} THEN DeleteDecisions(st, simulated)
        ELSE st

CfgInit ==
    /\ now = StartTime
    /\ notices = <<>>
    /\ triggers = CfgTriggers
    /\ events = {}
    /\ decisions = <<>>
    /\ observations = <<>>
    /\ acc = IdleFactor /\ prev = IdleFactor /\ evs = <<>>
    /\ dfactors = <<>> /\ dsource = NOTICE /\ dconclusion = PASS
    /\ IdlePointing /\ IdleVote /\ IdleRace /\ IdleQuery

\* listengcn saves a notice of a stream
CfgNoticeArrives ==
    /\ Len(notices) < MaxArchived
    /\ \E n \in CfgNotices : NoticeSaved(n[1], FALSE, now, n[2], CfgEnvs)
    /\ now' = now + 1
    /\ UNCHANGED <<addvars, conclvars, pointvars, votevars, racevars, queryvars>>

\* TriggerView.get of K1
CfgViewTrigger ==
    /\ TriggerViewGet("K1", ArchEnv)
    /\ UNCHANGED <<addvars, conclvars, pointvars, votevars, racevars, queryvars>>

\* TriggerView.post of K1; the clock has gone one second for each notice and
\* each retrigger
CfgManualRetrigger ==
    /\ now - StartTime - Len(notices) < MaxRetriggers
    /\ \E e \in events : e.trigger = "K1" /\ TriggerViewPost(e.trigger, e.groupid, ArchEnv)
    /\ now' = now + 1
    /\ UNCHANGED <<addvars, conclvars, pointvars, votevars, racevars, queryvars>>

\* the user's edit of the condition of the given class: the vote for a false
\* outcome goes from FAIL to MAYBE or back
Edited(trigger, kind) ==
    LET flip(c) == [c EXCEPT !.if_false = IF @ = FAIL THEN MAYBE ELSE FAIL]
    IN  CASE kind = "numericrange" ->
                [trigger EXCEPT !.numericrangeconditions = <<flip(@[1])>>]
          [] kind = "boolean" ->
                [trigger EXCEPT !.booleanconditions = <<flip(@[1])>>]
          [] kind = "equality" ->
                [trigger EXCEPT !.equalityconditions = <<flip(@[1])>>]

\* condition.save() of a condition of K1, and the post_save signal
ConditionSaved(kind) ==
    /\ triggers' = [triggers EXCEPT !["K1"] = Edited(@, kind)]
    /\ \E after \in {OnConditionSave(Tables, "K1", kind)} :
          /\ events' = after.events
          /\ decisions' = after.decisions
          /\ observations' = after.observations
    /\ UNCHANGED <<now, notices, addvars, conclvars, pointvars, votevars, racevars, queryvars>>

\* trigger.save() of K1 with another group-by selector, and on_trigger_save
TriggerSaved ==
    LET trigs == [triggers EXCEPT !["K1"].groupby = IF @ = "grp" THEN "alt" ELSE "grp"]
    IN  /\ triggers' = trigs
        /\ \E after \in {ResyncEvents(Tables, "K1", trigs, notices)} :
              /\ events' = after.events
              /\ decisions' = after.decisions
              /\ observations' = after.observations
        /\ UNCHANGED <<now, notices, addvars, conclvars, pointvars, votevars, racevars, queryvars>>

\* trigger.streams.add(stream) or .remove(stream) of K1, and
\* no_trigger_streams_changed
StreamsChanged(stream) ==
    LET trigs == [triggers EXCEPT !["K1"].streams =
                     IF stream \in @ THEN @ \ {stream} ELSE @ \cup {stream}]
    IN  /\ triggers' = trigs
        /\ \E after \in {ResyncEvents(Tables, "K1", trigs, notices)} :
              /\ events' = after.events
              /\ decisions' = after.decisions
              /\ observations' = after.observations
        /\ UNCHANGED <<now, notices, addvars, conclvars, pointvars, votevars, racevars, queryvars>>

CfgConditionSaved == \E kind \in {"numericrange", "boolean", "equality"} : ConditionSaved(kind)

CfgStreamsChanged == \E stream \in CfgStreams : StreamsChanged(stream)

CfgNext ==
    \/ CfgNoticeArrives
    \/ CfgViewTrigger
    \/ CfgManualRetrigger
    \/ CfgConditionSaved
    \/ TriggerSaved
    \/ CfgStreamsChanged

SpecConfig == CfgInit /\ [][CfgNext]_vars

(***************************************************************************)
(* NumericRangeCondition.vote on its own: every condition of a small pool  *)
(* against every value a selector can resolve to                           *)
(***************************************************************************)
\* val1, val2 of the conditions
Ranges == {<<10, 20>>, <<0, 10>>, <<20, 10>>}

\* what notice.query(selector) gives: nothing, strings float() converts,
\* strings it does not, structured values
Resolved == {None, "0", "5", "10", "15", "20", "25", "abc", "true", "[10]", "{}", "<Element>"}

\* a notice whose payload has val at the path "val", or nothing there
NoticeWith(val) ==
    [id |-> 1, stream |-> "s1", istest |-> FALSE, created |-> 0,
     payload |-> IF val = None THEN [k \in {} |-> None] ELSE [k \in {"val"} |-> val]]

VoteInit ==
    /\ \E r \in Ranges, if_true \in Vote, if_false \in Vote :
          ncondition = NumericCondition("val", r[1], r[2], if_true, if_false)
    /\ nvalue \in Resolved
    /\ nresult = IdleFactor
    /\ now = 0 /\ notices = <<>> /\ triggers = <<>> /\ events = {}
    /\ decisions = <<>> /\ observations = <<>>
    /\ acc = IdleFactor /\ prev = IdleFactor /\ evs = <<>>
    /\ dfactors = <<>> /\ dsource = NOTICE /\ dconclusion = PASS
    /\ IdlePointing /\ IdleRace /\ IdleQuery

\* condition.vote(notice)
NumericVote ==
    /\ nresult = IdleFactor
    /\ nresult' = NumericRangeVote(ncondition, NoticeWith(nvalue))
    /\ UNCHANGED <<ncondition, nvalue, sysvars, addvars, conclvars, pointvars, racevars, queryvars>>

SpecVote == VoteInit /\ [][NumericVote]_vars

(***************************************************************************)
(* MWAGW.prepare_request: the selection of the pointings.  Directions lie  *)
(* on one great circle and are given in degrees along it.                  *)
(***************************************************************************)
MinSeparation == 10
MaxPointings == 4
FarApart == 180

Abs(x) == IF x < 0 THEN 0 - x ELSE x

\* sweetspot.separation(c)
Separation(a, b) == Abs(a - b)

\* the sweet spots of the database file, in its order
SweetSpots == <<0, 5, 15, 26, 37, 48>>

\* the directions of the skymap cells (UNIQ)
Cells == {1, 4, 6, 14, 27, 36, 49}

\* SweetSpots.get_nearest(coord): argmin takes the first of the nearest
Nearest(coord) ==
    LET nearest == {i \in DOMAIN SweetSpots :
                      \A j \in DOMAIN SweetSpots :
                          Separation(SweetSpots[i], coord) <= Separation(SweetSpots[j], coord)}
    IN  SweetSpots[CHOOSE i \in nearest : \A j \in nearest : i <= j]

\* the skymaps: a PROBDENSITY for each of a few cells, no two alike
SkymapTables ==
    UNION {{t \in [D -> 1..Cardinality(D)] : \A c, d \in D : c # d => t[c] # t[d]} :
              D \in {E \in SUBSET Cells : Cardinality(E) <= MaxCells}}

\* skymap[np.flip(np.argsort(skymap["PROBDENSITY"]))]: the cells by descending
\* probability density
RECURSIVE ByDensityDescending(_)
ByDensityDescending(table) ==
    IF DOMAIN table = {} THEN <<>>
    ELSE LET densest == CHOOSE c \in DOMAIN table :
                           \A d \in DOMAIN table : table[d] <= table[c]
         IN  <<densest>> \o ByDensityDescending(
                                [c \in DOMAIN table \ {densest} |-> table[c]])

\* min(separations, default=Angle(180))
MinOf(S) == IF S = {} THEN FarApart ELSE CHOOSE x \in S : \A y \in S : x <= y

\* a selection that keeps a sweet spot at exactly the minimum separation
ScanKeepsAtMinimum(selected, coord) ==
    LET sweetspot == Nearest(coord)
        separations == {Separation(sweetspot, selected[k]) : k \in DOMAIN selected}
    IN  IF MinOf(separations) >= MinSeparation THEN Append(selected, sweetspot)
        ELSE selected

\* one pass of the loop body: the pointings after the cell at coord
Scan(selected, coord) ==
    LET sweetspot == Nearest(coord)
        separations == {Separation(sweetspot, selected[k]) : k \in DOMAIN selected}
    IN  IF MinOf(separations) > MinSeparation THEN Append(selected, sweetspot)
        ELSE selected

PointingInit ==
    /\ \E table \in SkymapTables : coords = ByDensityDescending(table)
    /\ scanned = 0
    /\ pointings = <<>>
    /\ now = 0 /\ notices = <<>> /\ triggers = <<>> /\ events = {}
    /\ decisions = <<>> /\ observations = <<>>
    /\ acc = IdleFactor /\ prev = IdleFactor /\ evs = <<>>
    /\ dfactors = <<>> /\ dsource = NOTICE /\ dconclusion = PASS
    /\ IdleVote /\ IdleRace /\ IdleQuery

\* for coord in coords: ... if len(pointings) >= 4: break
ScanCell ==
    /\ scanned < Len(coords)
    /\ Len(pointings) < MaxPointings
    /\ pointings' = Scan(pointings, coords[scanned + 1])
    /\ scanned' = scanned + 1
    /\ UNCHANGED <<coords, sysvars, addvars, conclvars, votevars, racevars, queryvars>>

SpecPointing == PointingInit /\ [][ScanCell]_vars

(***************************************************************************)
(* Factor.__add__ as a pure function: any Factor may be either operand     *)
(***************************************************************************)
Descriptions == {"IF a THEN Pass ELSE Fail", "IF b THEN Pass ELSE Maybe"}
Factors == [condition : Descriptions, vote : Vote \cup {None}, inherited : BOOLEAN]

AddInit ==
    /\ \E f \in Factors : acc = f /\ prev = f /\ evs = <<f>>
    /\ now = 0 /\ notices = <<>> /\ triggers = <<>> /\ events = {}
    /\ decisions = <<>> /\ observations = <<>>
    /\ dfactors = <<>> /\ dsource = NOTICE /\ dconclusion = PASS
    /\ IdlePointing /\ IdleVote /\ IdleRace /\ IdleQuery

\* factors[i] += c.vote(notice)
FoldStep(b) ==
    /\ Len(evs) < MaxEvals
    /\ prev' = acc
    /\ acc' = FactorAdd(acc, b)
    /\ evs' = Append(evs, b)
    /\ UNCHANGED <<sysvars, conclvars, pointvars, votevars, racevars, queryvars>>

AddNext == \E b \in Factors : FoldStep(b)

SpecAdd == AddInit /\ [][AddNext]_vars

(***************************************************************************)
(* Decision.conclusion as a pure function of the Factor rows and source    *)
(***************************************************************************)
ConclInit ==
    /\ dfactors = <<>>
    /\ dsource \in Source
    /\ dconclusion = Conclusion(<<>>, dsource)
    /\ now = 0 /\ notices = <<>> /\ triggers = <<>> /\ events = {}
    /\ decisions = <<>> /\ observations = <<>>
    /\ acc = IdleFactor /\ prev = IdleFactor /\ evs = <<>>
    /\ IdlePointing /\ IdleVote /\ IdleRace /\ IdleQuery

\* self.factors.add(factor), then a read of the conclusion property
AttachFactor(f) ==
    /\ Len(dfactors) < MaxFactors
    /\ dfactors' = Append(dfactors, f)
    /\ dconclusion' = Conclusion(dfactors', dsource)
    /\ UNCHANGED <<dsource, sysvars, addvars, pointvars, votevars, racevars, queryvars>>

ConclNext == \E f \in Factors : AttachFactor(f)

SpecConclusion == ConclInit /\ [][ConclNext]_vars

(***************************************************************************)
(* Test and live observations of one observatory: a live trigger with the  *)
(* longest observation, an inactive trigger of the highest priority and a  *)
(* live trigger in between, all for the MWA                                *)
(***************************************************************************)
MaxRequests == 3    \* dispatches of the test and live triggers

MixedTriggers ==
    [tid \in {"M1", "M2", "M3"} |->
        CASE tid = "M1" ->
                TriggerConfig(1, TRUE, 1, <<>>, <<>>, <<>>,
                              [a \in {"mwacorrelator"} |-> TelescopeConfig(a, 2, 2, 8)])
          [] tid = "M2" ->
                TriggerConfig(2, TRUE, 1, <<>>, <<>>, <<>>,
                              [a \in {"mwavcs"} |-> TelescopeConfig(a, 1, 1, 8)])
          [] tid = "M3" ->
                TriggerConfig(3, FALSE, 1, <<>>, <<>>, <<>>,
                              [a \in {"mwacorrelator"} |-> TelescopeConfig(a, 1, 1, 8)])]

MixedInit ==
    /\ now = 0
    /\ notices = <<>>
    /\ triggers = MixedTriggers
    /\ events = {}
    /\ decisions = <<>>
    /\ observations = <<>>
    /\ acc = IdleFactor /\ prev = IdleFactor /\ evs = <<>>
    /\ dfactors = <<>> /\ dsource = NOTICE /\ dconclusion = PASS
    /\ IdlePointing /\ IdleVote /\ IdleRace /\ IdleQuery

\* a dispatch of a live or of an inactive trigger that prepares well
MixedDispatch ==
    /\ Len(observations) < MaxRequests
    /\ \E tid \in DOMAIN triggers, env \in OverrideEnvs :
          Dispatch(tid, DispatchPayload("10", "skymap"), env)
    /\ UNCHANGED <<addvars, conclvars, pointvars, votevars, racevars, queryvars>>

MixedNext == MixedDispatch \/ TimePasses

SpecMixed == MixedInit /\ [][MixedNext]_vars

(***************************************************************************)
(* Event.querylatest on its own: the two classes named Event, over every   *)
(* small sequence of notices of one Event                                  *)
(***************************************************************************)
MaxQueried == 3     \* notices of the Event that is queried

\* Event.now and Event.testing when nothing has set them
DatetimeMax == 9999
NotTesting == FALSE

\* what the selector gives in a notice: nothing or a value
Selected == {None, "1", "5", "10"}

\* the i-th notice of the Event, created at i
QueriedNotice(i, val, istest) ==
    [id |-> i, stream |-> "s1", istest |-> istest, created |-> i,
     payload |-> IF val = None THEN [k \in {} |-> None] ELSE [k \in {"ra"} |-> val]]

\* TraceT2App Event.get_notices(): order_by("created"), created <= Event.now,
\* the test notices left out unless Event.testing is set
GetNotices(event, tbl, asof, testing) ==
    SelectSeq(OrderByCreated(event.notices, tbl),
              LAMBDA i : tbl[i].created <= asof /\ (testing \/ ~tbl[i].istest))

\* TraceT2App Event.querylatest(query)
AppQueryLatest(event, tbl, query) ==
    FirstResult(GetNotices(event, tbl, DatetimeMax, NotTesting), tbl, query)

QueriedEvent ==
    [trigger |-> "Q1", groupid |-> "g1", notices |-> DOMAIN notices, time |-> 0]

QueryInit ==
    /\ \E n \in 1..MaxQueried :
          \E vals \in [1..n -> Selected], tests \in [1..n -> BOOLEAN] :
             notices = [i \in 1..n |-> QueriedNotice(i, vals[i], tests[i])]
    /\ queried = <<>>
    /\ now = 0 /\ triggers = <<>> /\ events = {}
    /\ decisions = <<>> /\ observations = <<>>
    /\ acc = IdleFactor /\ prev = IdleFactor /\ evs = <<>>
    /\ dfactors = <<>> /\ dsource = NOTICE /\ dconclusion = PASS
    /\ IdlePointing /\ IdleVote /\ IdleRace

\* event.querylatest(self.ra_path) on the Event of src/tracet
QueryTracet ==
    /\ queried = <<>>
    /\ queried' = [by |-> "tracet", result |-> QueryLatest(QueriedEvent, notices, "ra")]
    /\ UNCHANGED <<sysvars, addvars, conclvars, pointvars, votevars, racevars>>

\* event.querylatest(self.ra_path) on the Event of src/TraceT2App
QueryApp ==
    /\ queried = <<>>
    /\ queried' = [by |-> "TraceT2App",
                   result |-> AppQueryLatest(QueriedEvent, notices, "ra")]
    /\ UNCHANGED <<sysvars, addvars, conclvars, pointvars, votevars, racevars>>

QueryNext == QueryTracet \/ QueryApp

SpecQuery == QueryInit /\ [][QueryNext]_vars

(***************************************************************************)
(* Claims on the vote algebra                                              *)
(***************************************************************************)
Max(S) == CHOOSE x \in S : \A y \in S : y <= x

\* the votes of a Decision's Factor rows, an indeterminate vote counted as FAIL
SubstitutedVotes == {IF dfactors[i].vote = None THEN FAIL ELSE dfactors[i].vote :
                        i \in DOMAIN dfactors}

\* m is the minimum Vote over the Factor rows, PASS when there are none
IsMinimumVote(m) ==
    IF SubstitutedVotes = {} THEN m = PASS
    ELSE /\ m \in SubstitutedVotes
         /\ \A v \in SubstitutedVotes : VoteValue(m) <= VoteValue(v)

\* C2 (as stated): Decision.conclusion equals the minimum Vote over the
\* Decision's Factors, an indeterminate vote counted as FAIL, and PASS when
\* the Factor list is empty.
C2_ConclusionIsMinimum == IsMinimumVote(dconclusion)

\* C2 (amended): Decision.conclusion equals that minimum, except that for a
\* Decision with source = manual a minimum of MAYBE is returned as PASS; a
\* single FAIL or indeterminate Factor among PASS Factors gives FAIL for
\* every source.
C2_ConclusionIsMinimumOrPromoted ==
    /\ \E m \in Vote :
          /\ IsMinimumVote(m)
          /\ dconclusion = IF m = MAYBE /\ dsource = MANUAL THEN PASS ELSE m
    /\ (\E i \in DOMAIN dfactors : dfactors[i].vote \in {FAIL, None})
          => dconclusion = FAIL

\* C2 witness: one indeterminate Factor among PASS Factors concludes FAIL
C2_Witness ==
    /\ Len(dfactors) = 3
    /\ dfactors[2].vote = None
    /\ dfactors[1].vote = PASS /\ dfactors[3].vote = PASS
    /\ dsource = MANUAL
    /\ dconclusion = FAIL

\* every operand folded so far is a fresh per-notice evaluation
FreshEvaluations == \A i \in DOMAIN evs : ~evs[i].inherited

\* C3: folding the per-notice evaluations of one condition left to right
\* gives the vote (and description) of the latest evaluation that is not
\* indeterminate (None, from the first, if all are indeterminate), and
\* inherited is true exactly when a later evaluation than that one exists.
C3_FoldLatestDeterminateWins ==
    (evs # <<>> /\ FreshEvaluations) =>
        LET D == {i \in DOMAIN evs : evs[i].vote # None}
            k == IF D = {} THEN 1 ELSE Max(D)
        IN  /\ acc.vote = (IF D = {} THEN None ELSE evs[k].vote)
            /\ acc.condition = evs[k].condition
            /\ acc.inherited = (k < Len(evs))

\* C3 witness: [indeterminate, PASS, indeterminate] ends as PASS, inherited
C3_Witness ==
    /\ Len(evs) = 3 /\ FreshEvaluations
    /\ evs[1].vote = None /\ evs[2].vote = PASS /\ evs[3].vote = None
    /\ acc.vote = PASS /\ acc.inherited

\* C4: for any Factors a, b with b.vote = None, a + b is the Factor with
\* a's description, a's vote and inherited = true.
C4_AddIndeterminateCarriesLeft ==
    (Len(evs) >= 2 /\ evs[Len(evs)].vote = None) =>
        acc = [condition |-> prev.condition, vote |-> prev.vote, inherited |-> TRUE]

\* C4 witness: a fresh PASS Factor plus an indeterminate one
C4_Witness ==
    /\ Len(evs) = 2 /\ evs[2].vote = None
    /\ prev.vote = PASS /\ ~prev.inherited
    /\ acc.vote = PASS /\ acc.inherited

\* C5: for any Factor b with b.vote # None and any Factor a, a + b equals b
\* unchanged (same description, same vote, inherited as given by b).
C5_AddDeterminateReturnsRight ==
    (Len(evs) >= 2 /\ evs[Len(evs)].vote # None) => acc = evs[Len(evs)]

(***************************************************************************)
(* C1: a Decision whose save went through has exactly one Observation if   *)
(* its source is not simulated, its conclusion (after promotion) is PASS   *)
(* and its Trigger has a Telescope, and has no Observation otherwise.      *)
(***************************************************************************)
ObservationsOf(d) == {i \in DOMAIN observations : observations[i].decision = d.id}

Dispatches(d) ==
    /\ d.source # SIMULATED
    /\ Conclusion(d.factors, d.source) = PASS
    /\ GetTelescope(triggers[d.event[1]]) # NoTelescope

NoticesAt(d) ==
    LET e == EventOf(events, d.event[1], d.event[2])
    IN  {n \in e.notices : notices[n].created <= d.created}

\* the time of the event of d when d was saved
EventTimeAt(d) == UpdateTime(NoticesAt(d), notices, triggers[d.event[1]].time_path)

Expired(d) ==
    /\ EventTimeAt(d) # NoTime
    /\ d.created - EventTimeAt(d) > triggers[d.event[1]].expiry * SecondsPerMinute

UserConditionsPass(d) ==
    /\ Len(d.factors) = 1 + Len(GetConditions(triggers[d.event[1]]))
    /\ \A k \in 2..Len(d.factors) : d.factors[k].vote = PASS

C6_ExpiredManualDispatchesNoticeDoesNot ==
    \A i \in DOMAIN decisions :
        LET d == decisions[i]
        IN  (~d.raised /\ Expired(d) /\ UserConditionsPass(d)) =>
               /\ d.source = NOTICE =>
                     /\ Conclusion(d.factors, d.source) = MAYBE
                     /\ ObservationsOf(d) = {}
               /\ d.source = MANUAL =>
                     /\ Conclusion(d.factors, d.source) = PASS
                     /\ (GetTelescope(triggers[d.event[1]]) # NoTelescope
                            => Cardinality(ObservationsOf(d)) = 1)

\* an expired event with a notice Decision left at MAYBE and a manual one
\* that dispatched
C6_Witness ==
    \E i, j \in DOMAIN decisions :
        /\ decisions[i].event = decisions[j].event
        /\ Expired(decisions[i]) /\ UserConditionsPass(decisions[i])
        /\ Expired(decisions[j]) /\ UserConditionsPass(decisions[j])
        /\ decisions[i].source = NOTICE /\ ObservationsOf(decisions[i]) = {}
        /\ decisions[j].source = MANUAL
        /\ Cardinality(ObservationsOf(decisions[j])) = 1

(***************************************************************************)
(* C10: the Factors of a Decision that is not simulated are those of the   *)
(* event's notices that are not test notices (with created <= the          *)
(* Decision's created): a test notice contributes to none of them.         *)
(***************************************************************************)
WithoutTestNotices(d) ==
    LET e == EventOf(events, d.event[1], d.event[2])
    IN  [e EXCEPT !.notices = {n \in NoticesAt(d) : ~notices[n].istest},
                  !.time = EventTimeAt(d)]

C10_RealDecisionIgnoresTestNotices ==
    \A i \in DOMAIN decisions :
        LET d == decisions[i]
        IN  (~d.raised /\ d.source # SIMULATED) =>
               d.factors = DecisionFactors(WithoutTestNotices(d), triggers[d.event[1]],
                                           d.created, notices).factors

(***************************************************************************)
(* C7: a dispatch ends in CLASH exactly when an earlier Observation of the *)
(* same observatory has status API_OK, finish >= now and a priority >= the *)
(* priority of the new request.  (Every dispatch of SpecOverride reaches   *)
(* the override check.)                                                    *)
(***************************************************************************)
Blocking(o) ==
    {i \in DOMAIN observations :
        /\ i < o.id
        /\ observations[i].observatory = o.observatory
        /\ observations[i].status = API_OK
        /\ observations[i].finish >= o.created
        /\ observations[i].priority >= o.priority}

C7_ClashIffBlockingObservation ==
    \A i \in DOMAIN observations :
        (observations[i].status = CLASH) <=> (Blocking(observations[i]) # {})

(***************************************************************************)
(* C8: whatever the three steps do, an unexpected exception included,      *)
(* create_observation saves exactly one Observation, whose status is one   *)
(* of the six and whose log holds the entries of the steps that ran; the   *)
(* catch-all handler ran exactly for the rows with UNKNOWN_FAILURE.        *)
(***************************************************************************)
CatchAllEntry == "An unknown exception was thrown during Telescope.create_observation()"

LogEntries(o) == {o.log[k] : k \in DOMAIN o.log}

C8_RowWellFormed(o) ==
    /\ o.status \in Status
    /\ o.log # <<>>
    /\ (o.status = UNKNOWN_FAILURE) <=> (CatchAllEntry \in LogEntries(o))
    /\ o.status = UNKNOWN_FAILURE => o.log[Len(o.log)] = CatchAllEntry
    /\ o.status \in {API_OK, API_FAILURE, REQUEST_FAILURE, CLASH}
          => "API params" \in LogEntries(o)
    /\ o.status = API_OK => o.requests = 1

C8_OneObservationPerDispatch ==
    /\ [](\A i \in DOMAIN observations :
             observations[i].id = i /\ C8_RowWellFormed(observations[i]))
    /\ [][/\ Len(observations') = Len(observations) + 1
          /\ SubSeq(observations', 1, Len(observations)) = observations]_observations

\* an unexpected exception after the request was prepared, and a clash
C8_Witness ==
    /\ \E i \in DOMAIN observations :
          /\ observations[i].status = UNKNOWN_FAILURE
          /\ Len(observations[i].log) >= 2
    /\ \E i \in DOMAIN observations : observations[i].status = API_OK

(***************************************************************************)
(* C9: for every telescope variant, a dispatch that reaches the request    *)
(* and is answered with success ends with API_OK and finish = now +        *)
(* duration (nobs x frequency ranges x exposure + 120 s for MWA); one that *)
(* is answered with non-success ends with API_FAILURE and finish unset.    *)
(***************************************************************************)
C9_Answered(tid, env) ==
    LET o == observations'[Len(observations')]
        tel == GetTelescope(triggers[tid])
    IN  o.status # CLASH =>
           IF env.http = "success"
           THEN /\ o.status = API_OK
                /\ o.finish # NoTime
                /\ tel.kind \in MWAKinds =>
                      o.finish = now + tel.nobs * tel.nfreq * tel.exposure + 120
           ELSE o.status = API_FAILURE /\ o.finish = NoTime

C9_SuccessGivesApiOkAndFinish ==
    [][\A tid \in DOMAIN triggers, env \in OverrideEnvs :
          Dispatch(tid, DispatchPayload("10", "skymap"), env) => C9_Answered(tid, env)]_vars

(***************************************************************************)
(* C11: the arrival of a test notice creates no Decision (and so no        *)
(* Observation); the arrival of any other notice creates exactly one       *)
(* Decision, with source notice, for each trigger whose Event the notice   *)
(* joins, and none for the other triggers.                                 *)
(***************************************************************************)
NewDecisions == {decisions'[i] : i \in (Len(decisions) + 1)..Len(decisions')}

\* the notice with the given id is attached to an Event of the trigger
Joined(evts, tid, id) == \E e \in evts : e.trigger = tid /\ id \in e.notices

C11_OnArrival(n) ==
    /\ SubSeq(decisions', 1, Len(decisions)) = decisions
    /\ \A d \in NewDecisions : d.source = NOTICE /\ d.created = now
    /\ n.istest => decisions' = decisions /\ observations' = observations
    /\ ~n.istest =>
          \A tid \in DOMAIN triggers :
              Cardinality({d \in NewDecisions : d.event[1] = tid})
                 = IF Joined(events', tid, n.id) THEN 1 ELSE 0

C11_TestNoticeCreatesNoDecision ==
    [][Len(notices') = Len(notices) + 1 => C11_OnArrival(notices'[Len(notices')])]_vars

\* a test notice that joined an Event, and another notice that joined the
\* Events of both triggers and has its two Decisions
C11_Witness ==
    /\ \E i \in DOMAIN notices :
          /\ notices[i].istest
          /\ \E tid \in DOMAIN triggers : Joined(events, tid, i)
          /\ \A k \in DOMAIN decisions : decisions[k].created # notices[i].created
    /\ \E i \in DOMAIN notices :
          /\ ~notices[i].istest
          /\ \A tid \in DOMAIN triggers : Joined(events, tid, i)

(***************************************************************************)
(* C12: the Factors of a Decision (the expiration Factor included) are     *)
(* those computed from the notices of its Event with created <= the        *)
(* Decision's created alone: a notice created later changes none of them.  *)
(***************************************************************************)
\* the Event of d, had it held only the notices created up to d.created
AsOfCreation(d) ==
    LET e == EventOf(events, d.event[1], d.event[2])
    IN  [e EXCEPT !.notices = NoticesAt(d), !.time = EventTimeAt(d)]

C12_DecisionDependsOnEarlierNoticesOnly ==
    \A i \in DOMAIN decisions :
        LET d == decisions[i]
            f == DecisionFactors(AsOfCreation(d), triggers[d.event[1]], d.created,
                                 notices)
        IN  ~d.raised => ~f.raised /\ d.factors = f.factors

(***************************************************************************)
(* C13: a Decision for which no notice of the Event qualifies (none has    *)
(* created <= the Decision's created) has the one Factor "Event contains   *)
(* no notices" with vote FAIL and nothing else, concludes FAIL whatever    *)
(* its source, and has no Observation.                                     *)
(***************************************************************************)
C13_NoNoticesFails ==
    \A i \in DOMAIN decisions :
        LET d == decisions[i]
        IN  NoticesAt(d) = {} =>
               /\ ~d.raised
               /\ d.factors = <<Factor("Event contains no notices", FAIL, FALSE)>>
               /\ Conclusion(d.factors, d.source) = FAIL
               /\ ObservationsOf(d) = {}

\* a manual retrigger of an Event, of a trigger with a telescope, whose only
\* notice is a test notice entered with a created in the future
C13_Witness ==
    \E i \in DOMAIN decisions :
        /\ NoticesAt(decisions[i]) = {}
        /\ decisions[i].source = MANUAL
        /\ GetTelescope(triggers[decisions[i].event[1]]) # NoTelescope
        /\ EventOf(events, decisions[i].event[1], decisions[i].event[2]).notices # {}

(***************************************************************************)
(* C14: the pointings are those of the greedy reference: going through the *)
(* cells by descending probability density, the nearest sweet spot of a    *)
(* cell is selected exactly when fewer than 4 are selected and it lies     *)
(* more than 10 degrees from each of them.  So there are at most 4, they   *)
(* are pairwise more than 10 degrees apart, the first is the sweet spot of *)
(* the densest cell, and the loop ends right when 4 are selected.          *)
(***************************************************************************)
\* the cells of the set S, a set of positions of coords, in scan order
RECURSIVE SpotsOf(_)
SpotsOf(S) ==
    IF S = {} THEN <<>>
    ELSE LET last == CHOOSE i \in S : \A j \in S : j <= i
         IN  Append(SpotsOf(S \ {last}), Nearest(coords[last]))

\* S holds the positions the greedy reference selects among the first n
IsGreedySelection(S, n) ==
    \A i \in 1..n :
        i \in S <=>
           /\ Cardinality({j \in S : j < i}) < 4
           /\ \A j \in S : j < i =>
                 Separation(Nearest(coords[i]), Nearest(coords[j])) > 10

Scanned == scanned = Len(coords) \/ Len(pointings) >= 4

Numbers == {"0", "5", "10", "15", "20", "25"}

NumberOf(val) ==
    CASE val = "0" -> 0 [] val = "5" -> 5 [] val = "10" -> 10
      [] val = "15" -> 15 [] val = "20" -> 20 [] val = "25" -> 25

\* vote() has returned or raised
Voted == nresult # IdleFactor

C15_NumericRangeVote ==
    Voted =>
       /\ nresult.condition = ncondition.str
       /\ ~nresult.inherited
       /\ nresult.vote =
             IF nvalue \notin Numbers THEN None
             ELSE IF ncondition.val1 <= NumberOf(nvalue) /\ NumberOf(nvalue) < ncondition.val2
                  THEN ncondition.if_true
                  ELSE ncondition.if_false

\* the same for the values that are nothing or a string: there the code does
\* as described
C15_VoteOnStrings ==
    (Voted /\ ~IsStructured(nvalue)) =>
       /\ nresult.condition = ncondition.str
       /\ ~nresult.inherited
       /\ nresult.vote =
             IF nvalue \notin Numbers THEN None
             ELSE IF ncondition.val1 <= NumberOf(nvalue) /\ NumberOf(nvalue) < ncondition.val2
                  THEN ncondition.if_true
                  ELSE ncondition.if_false

(***************************************************************************)
(* C16: a Decision with at least one qualifying notice has the Factor of   *)
(* the expiration condition first; its vote is PASS exactly when the       *)
(* Decision's time less the Event's time is at most the trigger's expiry   *)
(* in minutes and MAYBE otherwise, whatever the notices hold; it is never  *)
(* FAIL and never without a vote.                                          *)
(***************************************************************************)
\* the Decision d, just saved, has the Factor of the expiration condition first
ExpirationVotedFirst(d) ==
    LET e == EventOf(events', d.event[1], d.event[2])
        qualifying == {n \in e.notices : notices'[n].created <= d.created}
    IN  qualifying # {} =>
           /\ Len(d.factors) >= 1
           /\ d.factors[1].condition = "IF t1 - t0 <= expiry THEN Pass ELSE Maybe"
           /\ ~d.factors[1].inherited
           /\ e.time # NoTime
           /\ d.factors[1].vote =
                 IF d.created - e.time <= triggers[d.event[1]].expiry * 60
                 THEN PASS ELSE MAYBE

C16_ExpirationIsFirstFactor ==
    [][\A d \in NewDecisions : ExpirationVotedFirst(d)]_vars

\* the same for the Decisions whose save did not raise: there the code does
\* as described
C16_ExpirationFirstUnlessRaised ==
    [][\A d \in NewDecisions : ~d.raised => ExpirationVotedFirst(d)]_vars

(***************************************************************************)
(* C17: there is at most one Event per trigger and group id, and for each  *)
(* trigger every notice is attached to the Event of its group id, and to   *)
(* no other, exactly when the trigger listens to the notice's stream and   *)
(* the payload has a group id at the trigger's group-by path; otherwise it *)
(* is attached to no Event of that trigger.                                *)
(***************************************************************************)
OneEventPerGroup ==
    \A e1, e2 \in events :
        (e1.trigger = e2.trigger /\ e1.groupid = e2.groupid) => e1 = e2

\* the Events of the trigger the notice is attached to are as they should be
AttachedWhereDue(tid, n) ==
    LET groupid == n.payload[triggers[tid].groupby]
        attached == {e \in events : e.trigger = tid /\ n.id \in e.notices}
    IN  IF n.stream \in triggers[tid].streams /\ groupid # None
        THEN \E e \in attached : e.groupid = groupid /\ attached = {e}
        ELSE attached = {}

C17_OneEventPerGroupAndAttached ==
    /\ OneEventPerGroup
    /\ \A tid \in DOMAIN triggers :
          \A i \in DOMAIN notices : AttachedWhereDue(tid, notices[i])

\* the same as long as no Decision.save has raised: there the code does as
\* described
C17_AttachedUnlessRaised ==
    (\A k \in DOMAIN decisions : ~decisions[k].raised) =>
        C17_OneEventPerGroupAndAttached

(***************************************************************************)
(* C18: once a notice has been attached, and when the Decision for it is   *)
(* computed, the time of the Event is the earliest of the times parsed     *)
(* from its attached notices at the trigger's time_path; notices without a *)
(* time there, or with one that does not parse, are passed over, and the   *)
(* time is unset only when no attached notice has a time that parses.      *)
(***************************************************************************)
\* the times read from the attached notices of e
ParsedTimes(e, tbl) ==
    LET at(n) == tbl[n].payload[triggers[e.trigger].time_path]
    IN  {CASE at(n) = "00:00:00" -> 0 [] at(n) = "00:01:00" -> 60 [] at(n) = "00:02:00" -> 120 :
            n \in {m \in e.notices : at(m) \in {"00:00:00", "00:01:00", "00:02:00"}}}

TimeIsEarliest(e, tbl) ==
    IF ParsedTimes(e, tbl) = {} THEN e.time = NoTime
    ELSE e.time \in ParsedTimes(e, tbl) /\ \A t \in ParsedTimes(e, tbl) : e.time <= t

\* the expiration Factor of the Decision d, just saved, was computed from the
\* earliest time
DecidedOnEarliest(d) ==
    LET e == EventOf(events', d.event[1], d.event[2])
    IN  (~d.raised /\ Len(d.factors) > 1) =>
           \E t \in ParsedTimes(e, notices') :
               /\ \A u \in ParsedTimes(e, notices') : t <= u
               /\ d.factors[1].vote = PASS
                     <=> d.created - t <= triggers[e.trigger].expiry * 60

RealDecisions(ds) == {ds[i] : i \in {j \in DOMAIN ds : ds[j].source # SIMULATED}}

\* the step saves a condition of the trigger, of one of the given classes
ConditionEdited(tid, kinds) ==
    \/ "numericrange" \in kinds
          /\ triggers'[tid].numericrangeconditions # triggers[tid].numericrangeconditions
    \/ "boolean" \in kinds
          /\ triggers'[tid].booleanconditions # triggers[tid].booleanconditions
    \/ "equality" \in kinds
          /\ triggers'[tid].equalityconditions # triggers[tid].equalityconditions

SimulatedCleared(tid) ==
    /\ \A i \in DOMAIN decisions' :
          ~(decisions'[i].event[1] = tid /\ decisions'[i].source = SIMULATED)
    /\ RealDecisions(decisions') = RealDecisions(decisions)
    /\ \A i \in DOMAIN decisions :
          decisions[i].event[1] # tid =>
             \E j \in DOMAIN decisions' : decisions'[j] = decisions[i]

C19_ConditionEditClearsSimulated ==
    [][\A tid \in DOMAIN triggers :
          ConditionEdited(tid, {"numericrange", "boolean", "equality"})
             => SimulatedCleared(tid)]_vars

\* the same for the numeric-range and boolean conditions alone: there the code
\* does as described
C19_NumericOrBooleanEditClears ==
    [][\A tid \in DOMAIN triggers :
          ConditionEdited(tid, {"numericrange", "boolean"}) => SimulatedCleared(tid)]_vars

(***************************************************************************)
(* C20: no change of a trigger's configuration (a save of the trigger, a   *)
(* change of its streams or of its group-by selector with the resync that  *)
(* follows, an edit of a condition) deletes a Decision whose source is     *)
(* notice or manual.                                                       *)
(***************************************************************************)
C20_ConfigurationKeepsRealDecisions ==
    [][triggers' # triggers => RealDecisions(decisions) \subseteq RealDecisions(decisions')]_vars

(***************************************************************************)
(* C21: a dispatch issues one HTTP request at most and nothing repeats it: *)
(* when the transport fails the Observation ends with REQUEST_FAILURE, the *)
(* Observations there were stay as they are, and every Observation is that *)
(* of a Decision of its own, so that another request for the Event is made *)
(* only by a new Decision, such as that of a manual retrigger.             *)
(***************************************************************************)
NewObservations ==
    {observations'[i] : i \in (Len(observations) + 1)..Len(observations')}

\* what a handler run while the observatory answers as env tells has done
C21_OneAttempt(env) ==
    /\ SubSeq(observations', 1, Len(observations)) = observations
    /\ Cardinality(NewObservations) <= Cardinality(NewDecisions)
    /\ \A o \in NewObservations :
          /\ o.requests <= 1
          /\ \E d \in NewDecisions : d.id = o.decision
          /\ \A i \in DOMAIN observations : observations[i].decision # o.decision
          /\ env.http = "transport_error" =>
                /\ o.status \in {REQUEST_FAILURE, CLASH}
                /\ o.requests = 1 <=> o.status = REQUEST_FAILURE
                /\ o.finish = NoTime

C21_NoAutomaticRetry ==
    [][\A env \in RetryEnvs :
          (RetryNotice(env) \/ RetryManual(env)) => C21_OneAttempt(env)]_vars

\* a request that failed in transport, and the request of the manual
\* retrigger that followed, each with its own Decision and Observation
C21_Witness ==
    \E i, j \in DOMAIN observations :
        /\ i < j
        /\ observations[i].status = REQUEST_FAILURE /\ observations[i].requests = 1
        /\ observations[j].requests = 1 /\ observations[j].status = API_OK
        /\ \E k, l \in DOMAIN decisions :
              /\ decisions[k].id = observations[i].decision /\ decisions[k].source = NOTICE
              /\ decisions[l].id = observations[j].decision /\ decisions[l].source = MANUAL
              /\ decisions[k].event = decisions[l].event

(***************************************************************************)
(* C22: the dispatch of an inactive trigger is a test: its Observation has *)
(* istest true and the request prepared carries pretend (MWA) or test      *)
(* (ATCA) true; the ATCA request holds emailOnly, noTimeLimit,             *)
(* noScoreLimit and test exactly when the trigger is inactive, and that of *)
(* an active trigger holds none of them.                                   *)
(***************************************************************************)
TestOverrides == {"test", "emailOnly", "noTimeLimit", "noScoreLimit"}

\* the Observation just saved is that of a dispatch of the trigger
C22_Dispatched(tid) ==
    LET o == observations'[Len(observations')]
        inactive == ~triggers[tid].active
        atca == "atca" \in DOMAIN triggers[tid].telescopes
    IN  /\ o.istest = inactive
        /\ o.api_params # NoParams =>
              /\ o.api_params.pretend = inactive
              /\ ~atca => /\ "pretend" \in o.api_params.names
                          /\ o.api_params.names \cap TestOverrides = {}
              /\ atca => IF inactive THEN TestOverrides \subseteq o.api_params.names
                         ELSE o.api_params.names \cap TestOverrides = {}
        /\ o.requests = 1 => o.api_params # NoParams /\ o.api_params.sent

C22_InactiveTriggerDispatchIsTest ==
    [][\A tid \in DOMAIN triggers, payload \in PretendPayloads, env \in PretendEnvs :
          Dispatch(tid, payload, env) => C22_Dispatched(tid)]_vars

\* a request sent for an inactive ATCA trigger with the overrides, and one
\* sent for an active ATCA trigger without them
C22_Witness ==
    \E i, j \in DOMAIN observations :
        /\ observations[i].observatory = "ATCA" /\ observations[j].observatory = "ATCA"
        /\ observations[i].istest /\ observations[i].requests = 1
        /\ "emailOnly" \in observations[i].api_params.names
        /\ ~observations[j].istest /\ observations[j].requests = 1
        /\ "emailOnly" \notin observations[j].api_params.names

(***************************************************************************)
(* C23: a dispatch prepares, then checks the override, then requests, and  *)
(* the first step that fails gives the status: the HTTP request is issued  *)
(* only when the preparation succeeded and the override check passed, a    *)
(* dispatch that ends with DATA_FAILURE or CLASH has issued none, and a    *)
(* preparation that fails gives DATA_FAILURE also when an observation      *)
(* clashes.                                                                *)
(***************************************************************************)
\* the payload or the sweet spot database makes the preparation fail
PreparationFails(tid, payload, env) ==
    IF "mwagw" \in DOMAIN triggers[tid].telescopes
    THEN payload.skymap # "skymap" \/ ~env.sweetspots
    ELSE payload.ra \notin {"10"} \/ payload.dec \notin {"10"}

\* the override check, were it to run now, would raise OverrideException
Clashes(tid, env) ==
    CheckOverride(observations, Observatory(GetTelescope(triggers[tid])),
                  triggers[tid].priority, now, env).outcome = "OverrideException"

C23_InOrder(tid, payload, env) ==
    LET o == observations'[Len(observations')]
        fails == PreparationFails(tid, payload, env)
    IN  /\ fails => o.status = DATA_FAILURE
        /\ (~fails /\ env.unexpected = "prepare") => o.status = UNKNOWN_FAILURE
        /\ (~fails /\ env.unexpected = "override") => o.status = UNKNOWN_FAILURE
        /\ (~fails /\ env.unexpected \in {"none", "request"} /\ Clashes(tid, env))
              => o.status = CLASH
        /\ o.requests = 1 <=>
              (~fails /\ env.unexpected = "none" /\ ~Clashes(tid, env))
        /\ o.status \in {DATA_FAILURE, CLASH} => o.requests = 0
        /\ o.status \in {API_OK, API_FAILURE, REQUEST_FAILURE} => o.requests = 1

C23_StepsInOrder ==
    [][\A tid \in DOMAIN triggers, payload \in DispatchPayloads, env \in DispatchEnvs :
          Dispatch(tid, payload, env) => C23_InOrder(tid, payload, env)]_vars

\* a preparation failure reported while an observation of higher priority is
\* under way on the observatory
C23_Witness ==
    \E i, j \in DOMAIN observations :
        /\ i < j
        /\ observations[i].status = API_OK /\ observations[i].finish >= now
        /\ observations[j].observatory = observations[i].observatory
        /\ observations[j].priority <= observations[i].priority
        /\ observations[j].status = DATA_FAILURE
        /\ observations[j].requests = 0

(***************************************************************************)
(* C24: the triggers that listen to a notice are processed by descending   *)
(* priority: when the notice has two triggers for the same observatory     *)
(* dispatch, the Observation of the one with the higher priority is made   *)
(* first, and if it is API_OK with its finish in the future the            *)
(* Observation of the other, for that notice, is CLASH.                    *)
(***************************************************************************)
\* the trigger whose Decision led to the Observation
TriggerOf(o, ds) ==
    (CHOOSE d \in {ds[i] : i \in DOMAIN ds} : d.id = o.decision).event[1]

\* the new Observations hi and lo are those of two triggers with priorities
\* p_hi > p_lo for the same observatory
Contend(hi, lo) ==
    /\ hi.observatory = lo.observatory
    /\ hi.priority > lo.priority

C24_HigherPriorityFirst ==
    [][\A hi, lo \in NewObservations :
          Contend(hi, lo) =>
             /\ hi.id < lo.id
             /\ triggers[TriggerOf(hi, decisions')].priority = hi.priority
             /\ (hi.status = API_OK /\ hi.finish > now) => lo.status = CLASH]_vars

\* the same when the Observation of the higher priority finishes last of the
\* active ones: there the code does as described
C24_ClashBehindLatestFinish ==
    [][\A hi, lo \in NewObservations :
          Contend(hi, lo) =>
             /\ hi.id < lo.id
             /\ (/\ hi.status = API_OK /\ hi.finish > now
                 /\ \A i \in ActiveObservations(observations, hi.observatory, now) :
                       observations[i].finish < hi.finish)
                   => lo.status = CLASH]_vars

(***************************************************************************)
(* C25: two dispatches for one observatory that run at the same time can   *)
(* both pass the override check before either has saved its Observation:   *)
(* what a dispatch saves follows from the table as its check read it,      *)
(* whatever was saved since, so that two active API_OK Observations of one *)
(* observatory can exist of which the later has no greater priority than   *)
(* the earlier.                                                            *)
(***************************************************************************)
\* the active Observation of the MWA that finishes last, as the check of
\* process p read the table, stands in its way
StoodInTheWay(p) ==
    LET seen == inflight[p].seen
        active == {i \in DOMAIN seen : /\ seen[i].status = API_OK
                                       /\ seen[i].finish >= now
                                       /\ seen[i].observatory = "MWA"}
    IN  \E i \in active :
            /\ \A j \in active : seen[j].finish <= seen[i].finish
            /\ triggers[inflight[p].tid].priority <= seen[i].priority

C25_Saved(p, env) ==
    LET o == observations'[Len(observations')]
    IN  o.status = IF StoodInTheWay(p) THEN CLASH
                   ELSE IF env.http = "success" THEN API_OK
                   ELSE API_FAILURE

C25_CheckIsNotRepeated ==
    [][\A p \in Processes, env \in RaceEnvs : FinishStep(p, env) => C25_Saved(p, env)]_vars

\* two active API_OK Observations of the MWA, the later of no greater
\* priority than the earlier
C25_Witness ==
    \E i, j \in DOMAIN observations :
        /\ i < j
        /\ observations[i].status = API_OK /\ observations[j].status = API_OK
        /\ observations[i].observatory = observations[j].observatory
        /\ observations[i].finish >= now /\ observations[j].finish >= now
        /\ observations[j].priority <= observations[i].priority

(***************************************************************************)
(* C26: when the streams or the group-by selector of a trigger have        *)
(* changed and the resync is done, the trigger has one Event for each      *)
(* group id found in the archived notices of its streams, and no other,    *)
(* and each Event holds exactly the archived notices of those streams      *)
(* whose group id is its own.                                              *)
(***************************************************************************)
\* the archived notices of the trigger's streams that have the group id
Matching(tid, groupid) ==
    {i \in DOMAIN notices' :
        /\ notices'[i].stream \in triggers'[tid].streams
        /\ notices'[i].payload[triggers'[tid].groupby] = groupid}

\* the Events of the trigger have the groups of the archive
GroupsOfArchive(tid) ==
    {e.groupid : e \in {f \in events' : f.trigger = tid}}
       = {notices'[i].payload[triggers'[tid].groupby] :
             i \in {j \in DOMAIN notices' :
                       /\ notices'[j].stream \in triggers'[tid].streams
                       /\ notices'[j].payload[triggers'[tid].groupby] # None}}

\* the step changes the streams or the group-by selector of the trigger
Reconfigured(tid) ==
    \/ triggers'[tid].streams # triggers[tid].streams
    \/ triggers'[tid].groupby # triggers[tid].groupby

C26_ResyncGivesGroupsOfArchive ==
    [][\A tid \in DOMAIN triggers :
          Reconfigured(tid) =>
             /\ GroupsOfArchive(tid)
             /\ \A e \in events' :
                   e.trigger = tid => e.notices = Matching(tid, e.groupid)]_vars

\* the first half alone: there the code does as described
C26_ResyncKeepsMatchedGroups ==
    [][\A tid \in DOMAIN triggers :
          Reconfigured(tid) =>
             /\ GroupsOfArchive(tid)
             /\ \A e \in events' :
                   e.trigger = tid => Matching(tid, e.groupid) \subseteq e.notices]_vars

\* the notices of the queried Event in which the selector resolves
Resolving == {i \in DOMAIN notices : Query(notices[i], "ra") # None}

\* the result is the value of the latest notice in which the selector
\* resolves, nothing if there is none
IsLatestValue(result) ==
    IF Resolving = {} THEN result = None
    ELSE \E i \in Resolving : /\ \A j \in Resolving : j <= i
                              /\ result = Query(notices[i], "ra")

\* C27: request preparation resolves a selector to the value of the latest
\* notice of the Event in which it resolves, to nothing only if it resolves
\* in no notice; an older notice's value is used only when every newer
\* notice resolves to nothing -- for every querylatest the dispatch code
\* can be calling
C27_LatestResolvingNoticeWins ==
    queried # <<>> => IsLatestValue(queried.result)

\* C27, as far as it holds: the querylatest of src/tracet gives the value of
\* the latest resolving notice
C27_TracetLatestResolvingNoticeWins ==
    (queried # <<>> /\ queried.by = "tracet") => IsLatestValue(queried.result)

\* C27, where it fails: two notices that are not test notices both resolve
\* the selector to different values, and the older one's value is returned
C27_OlderValueUsed ==
    /\ queried # <<>>
    /\ Len(notices) = 2
    /\ \A i \in 1..2 : ~notices[i].istest
    /\ Query(notices[1], "ra") # None /\ Query(notices[2], "ra") # None
    /\ Query(notices[1], "ra") # Query(notices[2], "ra")
    /\ queried.result = Query(notices[1], "ra")

(***************************************************************************)
(* C28: whenever a dispatch passes the override check and reaches the      *)
(* request, no Observation of the same observatory with status API_OK and  *)
(* finish >= now has a priority >= the priority of the new request, also   *)
(* when several Observations are active at once.                           *)
(***************************************************************************)
\* the active Observations of the observatory of o, before o is saved
ActiveBefore(o) ==
    {i \in DOMAIN observations :
        /\ observations[i].observatory = o.observatory
        /\ observations[i].status = API_OK
        /\ observations[i].finish >= now}

C28_RequestOnlyAbovePriority ==
    [][\A tid \in DOMAIN triggers, env \in OverrideEnvs :
          Dispatch(tid, DispatchPayload("10", "skymap"), env) =>
             LET o == observations'[Len(observations')]
             IN  o.requests = 1 =>
                    \A i \in ActiveBefore(o) :
                       observations[i].priority < o.priority]_vars

\* C28, as far as it holds: a dispatch that reaches the request has a
\* priority above that of an active Observation that finishes last
C28_RequestOnlyAboveLatestFinish ==
    [][\A tid \in DOMAIN triggers, env \in OverrideEnvs :
          Dispatch(tid, DispatchPayload("10", "skymap"), env) =>
             LET o == observations'[Len(observations')]
                 active == ActiveBefore(o)
             IN  (o.requests = 1 /\ active # {}) =>
                    \E i \in active :
                       /\ \A j \in active :
                             observations[j].finish <= observations[i].finish
                       /\ observations[i].priority < o.priority]_vars

\* C28, where it fails: a request went out while an active Observation of
\* no smaller priority was under way, behind one that finishes later
C28_RequestBesideHigherPriority ==
    \E i, j, k \in DOMAIN observations :
        /\ i < j /\ j < k
        /\ observations[k].requests = 1
        /\ \A m \in {i, j} :
              /\ observations[m].observatory = observations[k].observatory
              /\ observations[m].status = API_OK
              /\ observations[m].finish >= observations[k].created
        /\ observations[j].finish < observations[i].finish
        /\ observations[i].priority < observations[j].priority
        /\ observations[j].priority >= observations[k].priority

(***************************************************************************)
(* C29: the creation of a Decision for an Event with at least one          *)
(* qualifying notice completes with one Factor for the expiration          *)
(* condition and one for each of the trigger's conditions, also when the   *)
(* Event's time is unset; nothing is raised out of it, and the remaining   *)
(* triggers are processed for the notice.                                  *)
(***************************************************************************)
\* the Decision d, just saved, has all its Factors and its save returned
HasAllFactors(d) ==
    LET e == EventOf(events', d.event[1], d.event[2])
        qualifying == {n \in e.notices : notices'[n].created <= d.created}
    IN  qualifying # {} =>
           /\ ~d.raised
           /\ Len(d.factors) = 1 + Len(GetConditions(triggers[d.event[1]]))

\* the triggers that are to decide on the notice n
Listening(n) ==
    {tid \in DOMAIN triggers : /\ n.stream \in triggers[tid].streams
                               /\ n.payload[triggers[tid].groupby] # None}

\* every trigger that is to decide on the notice that arrived has done so
AllProcessed(n) ==
    ~n.istest => \A tid \in Listening(n) : \E d \in NewDecisions : d.event[1] = tid

C29_DecisionCreationCompletes ==
    [][/\ \A d \in NewDecisions : HasAllFactors(d)
       /\ Len(notices') = Len(notices) + 1 => AllProcessed(notices'[Len(notices')])]_vars

\* C29, as far as it holds: a Decision for an Event whose time is set has
\* all its Factors, and a notice for which no save raised is decided on by
\* every trigger that listens
C29_CompletesWhenTimeIsSet ==
    [][/\ \A d \in NewDecisions :
             EventOf(events', d.event[1], d.event[2]).time # NoTime => HasAllFactors(d)
       /\ (/\ Len(notices') = Len(notices) + 1
           /\ \A d \in NewDecisions : ~d.raised)
             => AllProcessed(notices'[Len(notices')])]_vars

\* C29, where it fails: a Decision without Factors for an Event without
\* time, and a trigger that listens to the notice but was not reached
C29_RaisedAndLoopAborted ==
    \E k \in DOMAIN decisions, i \in DOMAIN notices :
        /\ decisions[k].raised /\ decisions[k].factors = <<>>
        /\ decisions[k].created = notices[i].created
        /\ i \in EventOf(events, decisions[k].event[1], decisions[k].event[2]).notices
        /\ EventOf(events, decisions[k].event[1], decisions[k].event[2]).time = NoTime
        /\ \E tid \in Listening(notices[i]) :
              \A d \in DOMAIN decisions :
                 decisions[d].created = notices[i].created => decisions[d].event[1] # tid

(***************************************************************************)
(* C30: the override check does not tell test from live Observations: an   *)
(* active Observation (API_OK, finish >= now) of an inactive trigger with  *)
(* priority >= p makes a live dispatch of priority p for the same          *)
(* observatory end in CLASH.                                               *)
(***************************************************************************)
\* the active test Observations of the observatory of o, before o is saved
ActiveTests(o) ==
    {i \in DOMAIN observations :
        /\ observations[i].observatory = o.observatory
        /\ observations[i].status = API_OK
        /\ observations[i].finish >= now
        /\ observations[i].istest}

C30_TestObservationBlocksLive ==
    [][\A tid \in DOMAIN triggers, env \in OverrideEnvs :
          Dispatch(tid, DispatchPayload("10", "skymap"), env) =>
             LET o == observations'[Len(observations')]
             IN  (/\ triggers[tid].active
                  /\ \E i \in ActiveTests(o) : observations[i].priority >= o.priority)
                    => o.status = CLASH]_vars

\* C30, as far as it holds: a test Observation that is the active one that
\* finishes last makes the live dispatch of no greater priority end in CLASH
C30_LastFinishingTestBlocksLive ==
    [][\A tid \in DOMAIN triggers, env \in OverrideEnvs :
          Dispatch(tid, DispatchPayload("10", "skymap"), env) =>
             LET o == observations'[Len(observations')]
             IN  (/\ triggers[tid].active
                  /\ \E i \in ActiveTests(o) :
                        /\ observations[i].priority >= o.priority
                        /\ \A j \in DOMAIN observations :
                              (/\ j # i
                               /\ observations[j].observatory = o.observatory
                               /\ observations[j].status = API_OK
                               /\ observations[j].finish >= now)
                                 => observations[j].finish < observations[i].finish)
                    => o.status = CLASH /\ o.requests = 0 /\ ~o.istest]_vars

\* a live dispatch that ended in CLASH although the only active Observation
\* was one of an inactive trigger
C30_LiveClashedWithTest ==
    \E i, k \in DOMAIN observations :
        /\ i < k
        /\ observations[k].status = CLASH /\ ~observations[k].istest
        /\ observations[i].istest /\ observations[i].status = API_OK
        /\ observations[i].finish >= observations[k].created
        /\ \A j \in 1..(k - 1) : j # i => observations[j].status # API_OK

\* C30, where it fails: a live request went out while a test Observation of
\* higher priority was under way, behind a live one that finishes later
C30_LiveRequestBesideTest ==
    \E i, j, k \in DOMAIN observations :
        /\ i < j /\ j < k
        /\ observations[k].requests = 1 /\ ~observations[k].istest
        /\ observations[j].istest /\ observations[j].status = API_OK
        /\ observations[j].finish >= observations[k].created
        /\ observations[j].priority >= observations[k].priority
        /\ observations[i].status = API_OK
        /\ observations[i].finish > observations[j].finish

====
